---- MODULE Spec2Model ----
(***************************************************************************)
(* Model of the repoexplorer dashboard (src/app.py and                      *)
(* src/repoexplorer/analysis): the base table built at startup, the manual  *)
(* filter inputs, the chat adapter's result, the reactive calc filtered_df  *)
(* and the aggregation functions that consume the filtered row-set.         *)
(*                                                                          *)
(* Numbers are fixed-point with one decimal digit: the float 0.8 is the     *)
(* integer 8 and the star count 5 is 50 (see Scale).                        *)
(***************************************************************************)
EXTENDS Integers, Sequences, FiniteSets, TLC

\* ------------------------------------------------------------------ bounds

\* Number of rows of the row pool the base table is drawn from.
MaxRows == 5

\* Number of input changes the user makes in one session.
MaxEdits == 1

\* Number of rows of a row-set handed to plot_feature_counts.
MaxChartRows == 10

\* Number of rows of a row-set handed to the star-bucket charts.
MaxHeatRows == 3

\* Number of commits of a commits table.
MaxCommits == 8

\* Number of times rows are added to a row-set handed to the distribution
\* charts, and the number of rows added at once when it is not one.
MaxDistAdds == 3
BatchRows == 50

\* Number of institutions of ACRONYMS the load looks for.
MaxAcronyms == 3

\* Most rows of filtered_df() that the repositories table shows.
MaxTableRows == 3

\* ------------------------------------------------------------------- state

VARIABLES
    df,            \* the base table, built once at startup
    slider_max,    \* _slider_max_stars, _slider_max_forks, _slider_max_downloads
    input,         \* the values of the sidebar inputs and of table_search
    chat,          \* the chat handle and what its df() gives now
    chat_message,  \* the value of the chat input "chat-message"
    filtered,      \* the cached value of the reactive calc filtered_df
    last_reset,    \* whether reset_all_filters ran last, and how its session call went
    edits,         \* input changes made by the user so far
    applied,       \* replay of the predicates: the predicates applied so far
    working,       \* replay of the predicates: the rows they have kept
    filtered_data, \* the row-set handed to plot_feature_counts
    feature_chart, \* what plot_feature_counts drew from it
    heat_rows,     \* the row-set handed to the star-bucket charts
    heatmap,       \* what plot_feature_heatmap_by_star_bucket drew from it
    star_chart,    \* what plot_feature_distribution_by_star_bucket drew from it
    commits,       \* the commits table handed to plot_commit_history
    window,        \* its start_date and end_date arguments
    commit_chart,  \* what plot_commit_history drew
    dist_rows,     \* the row-set handed to the distribution charts
    other_thres,   \* the other_thres argument of the distribution charts
    dist_chart,    \* what the distribution chart called last drew
    sources,       \* slow-path load: what each institution's parquet source holds
    loaded,        \* slow-path load: the base table built, once built
    log,           \* slow-path load: the institutions logged as failed
    startup,       \* the startup steps that follow the load: how far they got
    pool,          \* slow-path load: the executor's futures and the gathering loop
    grid,          \* the repositories table: filtered_df(), the search term, display_df
    panel          \* what show_clicked rendered for the selected row

vars == <<df, slider_max, input, chat, chat_message, filtered, last_reset, edits,
          applied, working, filtered_data, feature_chart,
          heat_rows, heatmap, star_chart, commits, window, commit_chart,
          dist_rows, other_thres, dist_chart, sources, loaded, log,
          startup, pool, grid, panel>>

\* The variables of the session (the dashboard's state), of the replay of
\* the predicates and of the feature chart.
sessionVars == <<df, slider_max, input, chat, chat_message, filtered, last_reset, edits>>
replayVars == <<applied, working>>
chartVars == <<filtered_data, feature_chart>>

\* The variables of the star-bucket charts, of the commit history, of the
\* distribution charts and of the slow-path load.
heatVars == <<heat_rows, heatmap, star_chart>>
commitVars == <<commits, window, commit_chart>>
distVars == <<dist_rows, other_thres, dist_chart>>
loadVars == <<sources, loaded, log, startup, pool>>

\* The variables of the repositories table and its detail panel.
tableVars == <<grid, panel>>

\* ------------------------------------------------------------------ values

\* One unit of the fixed-point representation of floats (0.8 is 8).
Scale == 10

\* A cell of a DataFrame: a number, NaN, None (missing) or a string of
\* single-character strings.
Num(n) == [k |-> "num", n |-> n, s |-> <<>>]
NaN == [k |-> "nan", n |-> 0, s |-> <<>>]
None == [k |-> "none", n |-> 0, s |-> <<>>]
Str(s) == [k |-> "str", n |-> 0, s |-> s]

\* A missing categorical value (None in an object column).
NA == "<NA>"

Digits == {"0", "1", "2", "3", "4", "5", "6", "7", "8", "9"}

DigitVal(c) ==
    CASE c = "0" -> 0 [] c = "1" -> 1 [] c = "2" -> 2 [] c = "3" -> 3
      [] c = "4" -> 4 [] c = "5" -> 5 [] c = "6" -> 6 [] c = "7" -> 7
      [] c = "8" -> 8 [] c = "9" -> 9

RECURSIVE DigitsVal(_)
DigitsVal(s) ==
    IF s = <<>> THEN 0
    ELSE DigitsVal(SubSeq(s, 1, Len(s) - 1)) * 10 + DigitVal(s[Len(s)])

AllDigits(s) == Len(s) > 0 /\ \A i \in 1..Len(s) : s[i] \in Digits

\* float(s) for the decimal strings "ddd" and "ddd.d"; NaN for any other
\* string (pandas' errors="coerce").
ParseNumber(s) ==
    IF AllDigits(s) THEN Num(DigitsVal(s) * Scale)
    ELSE IF Len(s) >= 3 /\ s[Len(s) - 1] = "."
            /\ AllDigits(SubSeq(s, 1, Len(s) - 2)) /\ s[Len(s)] \in Digits
         THEN Num(DigitsVal(SubSeq(s, 1, Len(s) - 2)) * Scale + DigitVal(s[Len(s)]))
         ELSE NaN

\* pd.to_numeric(..., errors="coerce") on one cell: never raises.
ToNumeric(v) ==
    CASE v.k = "num" -> v
      [] v.k = "str" -> ParseNumber(v.s)
      [] OTHER -> NaN

\* Comparisons of a float cell with a bound: every comparison with NaN is
\* False.
GeBound(v, x) == v.k = "num" /\ v.n >= x
LeBound(v, x) == v.k = "num" /\ v.n <= x

\* -------------------------------------------------------------- base table

\* The categorical and numeric columns of COLUMNS_TO_LOAD that the filter
\* pipeline reads, plus the index label pandas gives the row.
Row(ix, i, uni, typ, lic, lang, stars, forks, dls, aff) ==
    [idx |-> ix, id |-> i, university |-> uni,
     type_prediction_gpt_5_mini |-> typ, license |-> lic, language |-> lang,
     stargazers_count |-> stars, forks_count |-> forks,
     release_downloads |-> dls, affiliation_prediction_gpt_5_mini |-> aff]

\* The i-th repository of the pool, as a parquet file may hold it: counts
\* arrive as numbers, as numeric strings, as non-numeric strings, as None
\* or as NaN; probabilities as floats or as strings.
PoolRow(ix, i) ==
    LET p == ((i - 1) % 6) + 1 IN
    CASE p = 1 -> Row(ix, i, "UCB", "DOCS", "MIT", "Python",
                      Num(10), Num(10), Num(0), Num(8))
      [] p = 2 -> Row(ix, i, "UCB", "DEV", NA, "R",
                      Str(<<"2">>), Num(0), Str(<<"3">>), Num(9))
      [] p = 3 -> Row(ix, i, "MIT", "DEV", "GPL", "Python",
                      Num(50), Str(<<"2">>), Num(10), Num(10))
      [] p = 4 -> Row(ix, i, "MIT", NA, "MIT", NA,
                      Num(30), Num(20), Num(20), Str(<<"0", ".", "5">>))
      [] p = 5 -> Row(ix, i, "UCB", "DEV", "Other", "R",
                      Str(<<"x">>), Num(30), None, Num(9))
      [] p = 6 -> Row(ix, i, "MIT", "DOCS", "GPL", "Python",
                      Num(70), NaN, Num(10), None)

\* The base table holding the repositories a..b of the pool; pd.concat(...,
\* ignore_index=True) and read_parquet label the rows 0, 1, 2, ...
Table(a, b) == {PoolRow(i - a, i) : i \in a..b}

\* The base tables a load can produce (the empty table when b < a).
Tables == {Table(a, b) : a \in 1..MaxRows, b \in 0..MaxRows}

\* Series.unique().tolist() of a categorical column, as offered by a
\* selectize input (a missing value is no selectable string).
Choices(base, col) == {r[col] : r \in base} \ {NA}

\* ---------------------------------------------------------- startup defaults

\* Fallbacks of the slider maxima, in stars, forks and downloads.
FallbackStars == 5000
FallbackForks == 100
FallbackDownloads == 1000

\* The default prediction threshold range [0.8, 1], in units of 1/Scale.
ThresholdLo == 8
ThresholdHi == 10

\* A sub-population that takes every row with a numeric probability.
Df08Alt(base) ==
    {r \in base : ToNumeric(r.affiliation_prediction_gpt_5_mini).k = "num"}

\* _df_08: the rows whose coerced affiliation probability is >= 0.8.
Df08(base) ==
    {r \in base : GeBound(ToNumeric(r.affiliation_prediction_gpt_5_mini), ThresholdLo)}

\* Series.max() of a coerced column: NaN is skipped; NaN when nothing is left.
SeriesMax(cells) ==
    LET nums == {ToNumeric(c).n : c \in {d \in cells : ToNumeric(d).k = "num"}} IN
    IF nums = {} THEN NaN
    ELSE Num(CHOOSE m \in nums : \A n \in nums : n <= m)

\* int(_m): truncation of a float towards zero (the columns hold counts, so
\* the tables of the pool hold no fractional maximum).
IntOf(v) == (v.n \div Scale) * Scale

\* _slider_max_<col>: int(max) of the column over _df_08, the fallback when
\* _df_08 is empty (_m is None) or the maximum is NaN.
SliderMax(base, col, fallback) ==
    LET sub == Df08(base)
        m == IF sub # {} THEN SeriesMax({r[col] : r \in sub}) ELSE None
    IN IF m.k # "none" /\ m.k # "nan" THEN IntOf(m) ELSE fallback * Scale

SliderMaxima(base) ==
    [stars |-> SliderMax(base, "stargazers_count", FallbackStars),
     forks |-> SliderMax(base, "forks_count", FallbackForks),
     downloads |-> SliderMax(base, "release_downloads", FallbackDownloads)]

\* The values of the sidebar inputs as the UI is constructed.
DefaultInputs(mx) ==
    [university |-> {}, type |-> {}, license |-> {}, language |-> {},
     slider_stars |-> <<0, mx.stars>>,
     slider_forks |-> <<0, mx.forks>>,
     slider_downloads |-> <<0, mx.downloads>>,
     slider_threshold |-> <<ThresholdLo, ThresholdHi>>,
     table_search |-> ""]

\* ------------------------------------------------------------ predicates

\* A test that takes every selection, the empty one too, as made.
SelAlways(sel) == TRUE

\* Truthiness of a selectize value (a set of strings) and of a slider value
\* (a 2-tuple, never empty).
SelTruthy(sel) == sel # {}
RangeTruthy(rng) == Len(rng) # 0

\* result.loc[result.<col>.isin(selection)]
IsIn(result, col, sel) == {r \in result : r[col] \in sel}

\* A coercion that takes numbers only and turns every string into NaN.
CoerceNoParse(result, col) ==
    {[r EXCEPT ![col] = IF @.k = "num" THEN @ ELSE NaN] : r \in result}

\* result[col] = pd.to_numeric(result[col], errors="coerce")
Coerce(result, col) == {[r EXCEPT ![col] = ToNumeric(@)] : r \in result}

\* A range test that excludes its upper bound.
InRangeStrict(result, col, rng) ==
    {r \in result : GeBound(r[col], rng[1]) /\ r[col].k = "num" /\ r[col].n < rng[2]}

\* result[(result[col] >= min_val) & (result[col] <= max_val)]
InRange(result, col, rng) ==
    {r \in result : GeBound(r[col], rng[1]) /\ LeBound(r[col], rng[2])}

FilterUniversity(result, in) ==
    IF SelTruthy(in.university) THEN IsIn(result, "university", in.university)
    ELSE result

\* The type predicate applied to the base table instead of the running result.
FilterTypeOfBase(result, in) ==
    IF SelTruthy(in.type) THEN IsIn(df, "type_prediction_gpt_5_mini", in.type)
    ELSE result

FilterType(result, in) ==
    IF SelTruthy(in.type) THEN IsIn(result, "type_prediction_gpt_5_mini", in.type)
    ELSE result

FilterLicense(result, in) ==
    IF SelTruthy(in.license) THEN IsIn(result, "license", in.license)
    ELSE result

FilterLanguage(result, in) ==
    IF SelTruthy(in.language) THEN IsIn(result, "language", in.language)
    ELSE result

FilterStars(result, in) ==
    IF RangeTruthy(in.slider_stars)
    THEN InRange(Coerce(result, "stargazers_count"), "stargazers_count", in.slider_stars)
    ELSE result

FilterForks(result, in) ==
    IF RangeTruthy(in.slider_forks)
    THEN InRange(Coerce(result, "forks_count"), "forks_count", in.slider_forks)
    ELSE result

FilterDownloads(result, in) ==
    IF RangeTruthy(in.slider_downloads)
    THEN InRange(Coerce(result, "release_downloads"), "release_downloads", in.slider_downloads)
    ELSE result

FilterThreshold(result, in) ==
    IF RangeTruthy(in.slider_threshold)
    THEN InRange(Coerce(result, "affiliation_prediction_gpt_5_mini"),
                 "affiliation_prediction_gpt_5_mini", in.slider_threshold)
    ELSE result

\* The manual part of filtered_df: df.copy() and the eight predicates in
\* the order of the source.
ManualFilter(base, in) ==
    FilterThreshold(
      FilterDownloads(
        FilterForks(
          FilterStars(
            FilterLanguage(
              FilterLicense(
                FilterType(
                  FilterUniversity(base, in), in), in), in), in), in), in), in)

\* ---------------------------------------------------------- chat composition

\* What the chat handle gives filtered_df: no handle (chat is None), or a
\* handle whose df() raises, returns None, or returns a table.  A table is
\* known to filtered_df by its id column when it has one (hasId) and by its
\* index labels otherwise; keys holds those ids or labels.
ChatAbsent == [k |-> "absent", hasId |-> FALSE, keys |-> {}]
ChatRaises == [k |-> "raise", hasId |-> FALSE, keys |-> {}]
ChatReturnsNone == [k |-> "none", hasId |-> FALSE, keys |-> {}]
ChatTable(hasId, keys) == [k |-> "df", hasId |-> hasId, keys |-> keys]

\* The body of the try block matching by index label whatever the columns.
ChatTryByIndex(result, c) ==
    IF c.k = "raise" THEN [rows |-> {}, exc |-> TRUE]
    ELSE IF c.k = "df" /\ Cardinality(c.keys) > 0
         THEN [rows |-> {r \in result : r.idx \in c.keys}, exc |-> FALSE]
         ELSE [rows |-> result, exc |-> FALSE]

\* The body of the try block: chat.df() and the match by id or by index.
ChatTry(result, c) ==
    IF c.k = "raise" THEN [rows |-> {}, exc |-> TRUE]
    ELSE IF c.k = "df" /\ Cardinality(c.keys) > 0
         THEN IF c.hasId
              THEN [rows |-> {r \in result : r.id \in c.keys}, exc |-> FALSE]
              ELSE [rows |-> {r \in result : r.idx \in c.keys}, exc |-> FALSE]
         ELSE [rows |-> result, exc |-> FALSE]

\* The chat block without its exception handler.
ChatFilterUncaught(result, c) ==
    IF c.k = "absent" THEN [rows |-> result, exc |-> FALSE]
    ELSE ChatTry(result, c)

\* if chat is not None: try ... except Exception: pass
ChatFilter(result, c) ==
    IF c.k = "absent" THEN [rows |-> result, exc |-> FALSE]
    ELSE LET t == ChatTry(result, c) IN
         IF t.exc THEN [rows |-> result, exc |-> FALSE] ELSE t

\* filtered_df(): the manual predicates on a copy of df, then the chat result.
filtered_df(base, in, c) == ChatFilter(ManualFilter(base, in), c)

\* ------------------------------------------------------------ feature counts

\* FEATURES: the community-health columns the feature charts count.
FEATURES ==
    {"description", "readme", "license", "code_of_conduct_file", "contributing",
     "security_policy", "issue_templates", "pull_request_template"}

\* Series.notna() on one cell: None and NaN are missing, any string is not.
NotNa(cell) == cell.k \notin {"none", "nan"}

\* The detail panel's "✅" if selected.get(f) else "✗": the truthiness of
\* the cell: None and the empty string are falsy, a float NaN and any
\* non-empty string are truthy.
HealthCheck(cell) ==
    CASE cell.k = "none" -> FALSE
      [] cell.k = "nan" -> TRUE
      [] cell.k = "str" -> cell.s # <<>>
      [] OTHER -> cell.n # 0

\* A row of community-health cells: all files present; a README only; no
\* file, with an empty description and a NaN license.
FeatureRow(kind) ==
    CASE kind = "all" -> [f \in FEATURES |-> Str(<<"t">>)]
      [] kind = "readme" ->
            [f \in FEATURES |-> IF f = "readme" THEN Str(<<"t">>) ELSE None]
      [] kind = "bare" ->
            [f \in FEATURES |->
                CASE f = "description" -> Str(<<>>)
                  [] f = "license" -> NaN
                  [] OTHER -> None]

FeatureRowKinds == {"all", "readme", "bare"}

\* The features the Health tab of the detail panel shows.
HealthChecks == FEATURES \ {"license"}

\* filtered_data[f].notna().sum(): the rows are a sequence of records.
RECURSIVE NotNaSum(_, _)
NotNaSum(data, f) ==
    IF data = <<>> THEN 0
    ELSE (IF NotNa(Head(data)[f]) THEN 1 ELSE 0) + NotNaSum(Tail(data), f)

\* A total fixed for every row-set instead of the row-set's own length.
TotalGlobal(data) == MaxChartRows

\* total_repositories = len(filtered_data)
TotalRepositories(data) == Len(data)

\* f'{x:.1f}' of the float num / den: the decimal with one digit nearest to
\* it, the even one on a tie; in tenths.
FormatOneDecimal(num, den) ==
    LET q == (num * Scale) \div den
        r == (num * Scale) % den
    IN IF 2 * r > den \/ (2 * r = den /\ q % 2 = 1) THEN q + 1 ELSE q

\* percent = (count / total_repositories) * 100 and its label; numpy gives
\* nan, not an exception, for 0 / 0.
PercentLabel(count, total) ==
    IF total = 0 THEN NaN ELSE Num(FormatOneDecimal(count * 100, total))

\* plot_feature_counts: the bar heights, the percentage labels above the
\* bars and the total of the title.
plot_feature_counts(data, features) ==
    LET total == TotalRepositories(data) IN
    [drawn |-> TRUE,
     counts |-> [f \in features |-> NotNaSum(data, f)],
     labels |-> [f \in features |-> PercentLabel(NotNaSum(data, f), total)],
     total |-> total]

\* No chart drawn yet.
NoChart == [drawn |-> FALSE, counts |-> <<>>, labels |-> <<>>, total |-> 0]

\* ------------------------------------------------------- star-bucket charts

\* A star threshold that leaves its boundary value to the upper band.
get_star_bucket_below(stars) ==
    IF stars.k = "num" /\ stars.n < 10 * Scale THEN "0-10"
    ELSE IF stars.k = "num" /\ stars.n < 50 * Scale THEN "11-50"
    ELSE IF stars.k = "num" /\ stars.n < 100 * Scale THEN "51-100"
    ELSE IF stars.k = "num" /\ stars.n < 200 * Scale THEN "101-200"
    ELSE ">200"

\* get_star_bucket of the heatmap (the labels are written with an en dash
\* in the source); every comparison with NaN is False, so NaN ends in '>200'.
get_star_bucket(stars) ==
    IF LeBound(stars, 10 * Scale) THEN "0-10"
    ELSE IF LeBound(stars, 50 * Scale) THEN "11-50"
    ELSE IF LeBound(stars, 100 * Scale) THEN "51-100"
    ELSE IF LeBound(stars, 200 * Scale) THEN "101-200"
    ELSE ">200"

\* get_star_bucket of plot_feature_distribution_by_star_bucket.
get_star_bucket_3(stars) ==
    IF LeBound(stars, 100 * Scale) THEN "0-100"
    ELSE IF LeBound(stars, 500 * Scale) THEN "101-500"
    ELSE ">500"

\* star_buckets of the two charts.
star_buckets == {"0-10", "11-50", "51-100", "101-200", ">200"}
star_buckets_3 == {"0-100", "101-500", ">500"}

\* The number of rows of a row-set that is given by how many rows it holds
\* of each kind, over the kinds of S.
RECURSIVE RowCount(_, _)
RowCount(rows, S) ==
    IF S = {} THEN 0
    ELSE LET t == CHOOSE x \in S : TRUE IN rows[t] + RowCount(rows, S \ {t})

\* subset = df[df["star_bucket"] == bucket]; total = len(subset);
\* count = subset[feature].notna().sum(); pct = count / total * 100 if
\* total > 0 else 0 (a float, kept here to the tenth below it).
BucketCell(data, col, feature, bucket) ==
    LET subset == {k \in DOMAIN data : col[k] = bucket}
        total == RowCount(data, subset)
        count == RowCount(data, {k \in subset : NotNa(k[feature])})
    IN [total |-> total, count |-> count,
        pct |-> IF total > 0 THEN (count * 100 * Scale) \div total ELSE 0]

\* sum(row[bucket] for row in results)
RECURSIVE SumPct(_, _, _)
SumPct(cells, features, bucket) ==
    IF features = {} THEN 0
    ELSE LET f == CHOOSE x \in features : TRUE
         IN cells[f][bucket].pct + SumPct(cells, features \ {f}, bucket)

\* plot_feature_heatmap_by_star_bucket: the star_bucket column, one row of
\* percentages per feature, the "Average" row and the total of the title.
plot_feature_heatmap_by_star_bucket(data, features) ==
    LET col == [k \in DOMAIN data |-> get_star_bucket(k.stargazers_count)]
        cells == [f \in features |->
                    [b \in star_buckets |-> BucketCell(data, col, f, b)]]
    IN [drawn |-> TRUE, star_bucket |-> col, cells |-> cells,
        average |-> [b \in star_buckets |->
                        SumPct(cells, features, b) \div Cardinality(features)],
        total |-> RowCount(data, DOMAIN data)]

\* plot_feature_distribution_by_star_bucket: the star_bucket column and the
\* Percent and Count of every feature in every bucket.
plot_feature_distribution_by_star_bucket(data, features) ==
    LET col == [k \in DOMAIN data |-> get_star_bucket_3(k.stargazers_count)]
    IN [drawn |-> TRUE, star_bucket |-> col,
        cells |-> [f \in features |->
                     [b \in star_buckets_3 |-> BucketCell(data, col, f, b)]],
        total |-> RowCount(data, DOMAIN data)]

\* No star-bucket chart drawn yet.
NoBucketChart == [drawn |-> FALSE]

\* The star counts of the rows handed to the star-bucket charts: the
\* counts on both sides of every threshold, a fractional value and NaN.
StarTicks ==
    {Num(n * Scale) : n \in {0, 10, 11, 50, 51, 100, 101, 200, 201, 500, 501}}
        \cup {Num(105), NaN}

\* A row of community-health cells with its star count.
HeatRow(kind, stars) ==
    [f \in FEATURES \cup {"stargazers_count"} |->
        IF f = "stargazers_count" THEN stars ELSE FeatureRow(kind)[f]]

\* The kinds of rows of the row-set: every star count with all files, and
\* the counts 10, 11 and 201 without a file as well.
HeatRowKinds ==
    {HeatRow("all", stars) : stars \in StarTicks}
        \cup {HeatRow("bare", Num(n * Scale)) : n \in {10, 11, 201}}

\* The star-bucket charts have not been asked for.
HeatIdle ==
    /\ heat_rows = [k \in HeatRowKinds |-> 0]
    /\ heatmap = NoBucketChart
    /\ star_chart = NoBucketChart

\* ---------------------------------------------------------- commit history

\* A value of the "date" column after pd.to_datetime(errors="coerce",
\* utc=True): a UTC timestamp (to the hour) or NaT; and an argument left None.
Timestamp(y, m, d, h) == [k |-> "ts", y |-> y, m |-> m, d |-> d, h |-> h]
NaT == [k |-> "nat", y |-> 0, m |-> 0, d |-> 0, h |-> 0]
NoDate == [k |-> "none", y |-> 0, m |-> 0, d |-> 0, h |-> 0]

\* DEFAULT_START and DEFAULT_END.
DEFAULT_START == Timestamp(2021, 3, 1, 0)
DEFAULT_END == Timestamp(2026, 1, 31, 0)

\* The order of timestamps: a number that grows with the instant.
Stamp(t) == ((t.y * 12 + (t.m - 1)) * 31 + (t.d - 1)) * 24 + t.h

\* Series.dt.to_period("M"): the calendar month, as months since year 0.
to_period_M(t) == t.y * 12 + (t.m - 1)

\* A series that keeps only the months that have commits.
ReindexSkipping(counts, first_period, last_period) == counts

\* counts.reindex(pd.period_range(first_period, last_period, freq="M"),
\* fill_value=0)
Reindex(counts, first_period, last_period) ==
    [p \in first_period..last_period |->
        IF p \in DOMAIN counts THEN counts[p] ELSE 0]

\* first_period = counts.index.min()
FirstPeriod(counts) ==
    CHOOSE p \in DOMAIN counts : \A q \in DOMAIN counts : p <= q

\* A last period that repeats the first.
LastPeriodAsFirst(counts) == FirstPeriod(counts)

\* last_period = counts.index.max()
LastPeriod(counts) ==
    CHOOSE p \in DOMAIN counts : \A q \in DOMAIN counts : q <= p

\* What plot_commit_history leaves on the axes: the title and the plotted
\* monthly series (none when it returns early).
CommitChart(title, series, total) ==
    [drawn |-> TRUE, title |-> title, series |-> series, total |-> total]

NoCommitChart == [drawn |-> FALSE, title |-> "", series |-> <<>>, total |-> 0]

\* plot_commit_history(filtered_data, start_date=..., end_date=...)
plot_commit_history(table, start_date, end_date) ==
    LET rows == table.rows
        total_repositories == RowCount(rows, DOMAIN rows)
        valid == {t \in DOMAIN rows : rows[t] > 0 /\ t.k = "ts"}
        start_ts == IF start_date # NoDate THEN start_date ELSE DEFAULT_START
        end_ts == IF end_date # NoDate THEN end_date ELSE DEFAULT_END
        inside == {t \in valid : Stamp(t) >= Stamp(start_ts) /\ Stamp(t) <= Stamp(end_ts)}
        month_periods == {to_period_M(t) : t \in inside}
        counts == [p \in month_periods |->
                      RowCount(rows, {t \in inside : to_period_M(t) = p})]
    IN IF total_repositories = 0 \/ ~table.has_date
           THEN CommitChart("No commit data", <<>>, 0)
       ELSE IF valid = {}
           THEN CommitChart("No valid dates in commits", <<>>, 0)
       ELSE IF inside = {}
           THEN CommitChart("No commits in the selected period", <<>>, 0)
       ELSE CommitChart("Commit activity by month",
                        Reindex(counts, FirstPeriod(counts), LastPeriod(counts)),
                        total_repositories)

\* The dates of the commits a commits table may hold: unparseable; before
\* the default window; at its first instant; inside it, in March, June and
\* August 2021; at its last instant; and later on its last day.
CommitDates ==
    {NaT, Timestamp(2021, 2, 28, 23), Timestamp(2021, 3, 1, 0),
     Timestamp(2021, 3, 15, 12), Timestamp(2021, 6, 10, 12),
     Timestamp(2021, 8, 5, 12), Timestamp(2026, 1, 31, 0),
     Timestamp(2026, 1, 31, 12)}

\* A commits table without rows, with or without a "date" column.
NoCommits(has_date) == [has_date |-> has_date, rows |-> [t \in CommitDates |-> 0]]

\* The start_date and end_date arguments: the defaults, or a window from
\* mid-March to the end of June 2021.
Windows ==
    {[start_date |-> NoDate, end_date |-> NoDate],
     [start_date |-> Timestamp(2021, 3, 15, 0), end_date |-> Timestamp(2021, 6, 30, 0)]}

\* plot_commit_history has not been asked for.
CommitsIdle ==
    /\ commits = NoCommits(TRUE)
    /\ window = [start_date |-> NoDate, end_date |-> NoDate]
    /\ commit_chart = NoCommitChart

\* ------------------------------------------------------ distribution charts

\* The share thresholds written into plot_license_distribution (0.02) and
\* plot_language_distribution (0.05), in thousandths like other_thres.
LicenseShare == 20
LanguageShare == 50

\* str.lower() and str.strip() on a string of single-character strings.
UpperCase ==
    <<"A", "B", "C", "D", "E", "F", "G", "H", "I", "J", "K", "L", "M",
      "N", "O", "P", "Q", "R", "S", "T", "U", "V", "W", "X", "Y", "Z">>
LowerCase ==
    <<"a", "b", "c", "d", "e", "f", "g", "h", "i", "j", "k", "l", "m",
      "n", "o", "p", "q", "r", "s", "t", "u", "v", "w", "x", "y", "z">>
Whitespace == {" ", "\t", "\n"}

str_lower(s) ==
    [i \in 1..Len(s) |->
        IF \E j \in 1..Len(UpperCase) : UpperCase[j] = s[i]
        THEN LowerCase[CHOOSE j \in 1..Len(UpperCase) : UpperCase[j] = s[i]]
        ELSE s[i]]

RECURSIVE str_lstrip(_)
str_lstrip(s) ==
    IF s # <<>> /\ Head(s) \in Whitespace THEN str_lstrip(Tail(s)) ELSE s

RECURSIVE str_rstrip(_)
str_rstrip(s) ==
    IF s # <<>> /\ s[Len(s)] \in Whitespace
    THEN str_rstrip(SubSeq(s, 1, Len(s) - 1)) ELSE s

str_strip(s) == str_rstrip(str_lstrip(s))

\* str(n) of a natural number.
RECURSIVE IntStr(_)
IntStr(n) ==
    LET DigitChar == <<"0", "1", "2", "3", "4", "5", "6", "7", "8", "9">>
    IN IF n < 10 THEN <<DigitChar[n + 1]>>
       ELSE IntStr(n \div 10) \o <<DigitChar[(n % 10) + 1]>>

\* str(x) of a non-negative float held in tenths: 0.9 gives '0.9', 1 gives
\* '1.0'.
FloatStr(n) == IntStr(n \div Scale) \o <<".">> \o IntStr(n % Scale)

\* Series.astype(str) on one cell: None gives 'None', NaN gives 'nan' and a
\* float its decimal writing.
astype_str(cell) ==
    CASE cell.k = "str" -> cell.s
      [] cell.k = "none" -> <<"N", "o", "n", "e">>
      [] cell.k = "num" -> FloatStr(cell.n)
      [] OTHER -> <<"n", "a", "n">>

\* A test for the sentinel that takes the value as it is written.
IsErrorTypeExact(cell) == astype_str(cell) = <<"e", "r", "r", "o", "r">>

\* filtered_data[type_col].astype(str).str.strip().str.lower() == "error"
IsErrorType(cell) ==
    str_lower(str_strip(astype_str(cell))) = <<"e", "r", "r", "o", "r">>

\* Series.fillna('None') on a categorical column held as strings.
FillNa(v) == IF v = NA THEN "None" ELSE v

\* Series.value_counts() of a column (dropna=True): the number of rows per
\* value, missing values left out. A row-set is given by how many rows it
\* holds of each kind; column gives the value of every kind; missing says
\* which values are missing.
ValueCounts(rows, column, missing) ==
    LET kinds == {k \in DOMAIN rows : rows[k] > 0 /\ column[k] \notin missing}
    IN [v \in {column[k] : k \in kinds} |->
           RowCount(rows, {k \in kinds : column[k] = v})]

\* counts.sum() and len(filtered_data)
Total(counts) == RowCount(counts, DOMAIN counts)

\* counts[counts / total >= thres].index, thres in thousandths.
Major(counts, thres) ==
    {v \in DOMAIN counts : counts[v] * 1000 >= thres * Total(counts)}

\* grouped[label] = value: the entry is created, or overwritten when the
\* label is there already.
SetItem(grouped, label, value) ==
    [v \in DOMAIN grouped \cup {label} |-> IF v = label THEN value ELSE grouped[v]]

\* grouped = major.copy(); if not minor.empty: grouped['Other'] = minor.sum()
MergeMinor(major, minor) ==
    IF DOMAIN minor = {} THEN major ELSE SetItem(major, "Other", Total(minor))

\* A chart of a distribution function: the function called, the buckets
\* with their counts, the total of the title, and whether it raised.
NoDistChart == [drawn |-> FALSE, fn |-> "", exc |-> FALSE]

\* filtered_data['language'].replace({"Jupyter Notebook": "Jupyter"}),
\* assigned back to the caller's frame.
ReplaceJupyter(rows) ==
    LET renamed(k) == IF k.language = "Jupyter Notebook"
                      THEN [k EXCEPT !.language = "Jupyter"] ELSE k
    IN [r \in {renamed(k) : k \in DOMAIN rows} |->
           RowCount(rows, {k \in DOMAIN rows : renamed(k) = r})]

\* plot_language_distribution: other_thres is accepted and never read; the
\* share is taken of the rows that have a language.
plot_language_distribution(rows, thres) ==
    LET data == ReplaceJupyter(rows)
        language_counts == ValueCounts(data, [k \in DOMAIN data |-> k.language], {NA})
        major == Major(language_counts, LanguageShare)
        lang_major == [v \in major |-> language_counts[v]]
        lang_minor == [v \in DOMAIN language_counts \ major |-> language_counts[v]]
    IN [drawn |-> TRUE, fn |-> "plot_language_distribution", exc |-> FALSE,
        counts |-> language_counts,
        values |-> MergeMinor(lang_major, lang_minor),
        total |-> Total(rows)]

\* plot_license_distribution: other_thres is accepted and never read.
plot_license_distribution(rows, thres) ==
    LET license_counts == ValueCounts(rows, [k \in DOMAIN rows |-> FillNa(k.license)], {})
        major == Major(license_counts, LicenseShare)
        lic_major == [v \in major |-> license_counts[v]]
        lic_minor == [v \in DOMAIN license_counts \ major |-> license_counts[v]]
        lic_grouped == MergeMinor(lic_major, lic_minor)
        merged == IF "other" \in DOMAIN lic_grouped
                  THEN LET g == SetItem(lic_grouped, "Other",
                                   (IF "Other" \in DOMAIN lic_grouped
                                    THEN lic_grouped["Other"] ELSE 0)
                                   + lic_grouped["other"])
                       IN [v \in DOMAIN g \ {"other"} |-> g[v]]
                  ELSE lic_grouped
    IN [drawn |-> TRUE, fn |-> "plot_license_distribution", exc |-> FALSE,
        counts |-> license_counts,
        values |-> merged,
        total |-> Total(rows)]

\* plot_type_distribution: the rows whose type is the sentinel are left
\* out; with no category left it writes "No data to display" and returns.
plot_type_distribution(rows) ==
    LET plot_data == [k \in {x \in DOMAIN rows :
                                 ~IsErrorType(x.type_prediction_gpt_5_mini)} |-> rows[k]]
        category_counts ==
            ValueCounts(plot_data,
                        [k \in DOMAIN plot_data |-> k.type_prediction_gpt_5_mini],
                        {None, NaN})
    IN IF DOMAIN category_counts = {}
       THEN [drawn |-> TRUE, fn |-> "plot_type_distribution", exc |-> FALSE,
             text |-> "No data to display", values |-> category_counts,
             titled |-> FALSE, total |-> 0]
       ELSE [drawn |-> TRUE, fn |-> "plot_type_distribution", exc |-> FALSE,
             text |-> "", values |-> category_counts,
             titled |-> TRUE, total |-> Total(plot_data)]

\* The kinds of rows that have a project type, and their types.
Typed(rows) ==
    {k \in DOMAIN rows : rows[k] > 0 /\ NotNa(k.type_prediction_gpt_5_mini)}
TypesOf(rows) == {k.type_prediction_gpt_5_mini : k \in Typed(rows)}

\* data.groupby(col)['type_prediction_gpt_5_mini'].value_counts()
\*     .unstack(fill_value=0): a row per value of the column that has a
\* typed row, a column per project type.
GroupedByType(rows, column) ==
    [l \in {column[k] : k \in Typed(rows)} |->
        [t \in TypesOf(rows) |->
            RowCount(rows, {k \in Typed(rows) :
                               column[k] = l /\ k.type_prediction_gpt_5_mini = t})]]

\* DataFrame.sum() of the rows of labels: the sum per project type.
RECURSIVE SumRows(_, _, _)
SumRows(grouped, labels, t) ==
    IF labels = {} THEN 0
    ELSE LET l == CHOOSE x \in labels : TRUE
         IN grouped[l][t] + SumRows(grouped, labels \ {l}, t)

\* Series.sum() of one row of grouped.
RowTotal(row) == RowCount(row, DOMAIN row)

\* The outcomes of the library calls the source leaves a degenerate input
\* to (0 / 0 of a count by len(filtered_data), a groupby without groups):
\* a NaN value or an exception.
EdgeOutcomes == {"nan", "raise"}

\* The part the two grouped-by-type distribution charts share. column is
\* the cleaned column, merge_other says whether a row 'other' is merged
\* into 'Other' afterwards, edge is the outcome of 0 / 0.
DistributionByType(fn, rows, column, thres, merge_other, edge) ==
    LET totals == ValueCounts(rows, column, {})
        major == Major(totals, thres)
        unstacked == GroupedByType(rows, column)
        types == TypesOf(rows)
        minor_rows == DOMAIN unstacked \ major
        kept == [l \in major \cap DOMAIN unstacked |-> unstacked[l]]
        with_other ==
            IF minor_rows # {}
            THEN SetItem(kept, "Other", [t \in types |-> SumRows(unstacked, minor_rows, t)])
            ELSE kept
        grouped ==
            IF merge_other /\ "other" \in DOMAIN with_other
            THEN LET g == SetItem(with_other, "Other",
                              [t \in types |->
                                  (IF "Other" \in DOMAIN with_other
                                   THEN with_other["Other"][t] ELSE 0)
                                  + with_other["other"][t]])
                 IN [l \in DOMAIN g \ {"other"} |-> g[l]]
            ELSE with_other
        project_type_totals ==
            ValueCounts(rows, [k \in DOMAIN rows |-> k.type_prediction_gpt_5_mini],
                        {None, NaN})
        total_repositories == Total(rows)
    IN IF ~(major \subseteq DOMAIN unstacked)
          \/ (total_repositories = 0 /\ edge = "raise")
       THEN [drawn |-> TRUE, fn |-> fn, exc |-> TRUE]
       ELSE [drawn |-> TRUE, fn |-> fn, exc |-> FALSE,
             totals |-> totals,
             grouped |-> grouped,
             last |-> "Project Type",
             project_type |-> project_type_totals,
             percent |-> [l \in DOMAIN grouped \cup {"Project Type"} |->
                            PercentLabel(IF l = "Project Type"
                                         THEN Total(project_type_totals)
                                         ELSE RowTotal(grouped[l]),
                                         total_repositories)],
             total |-> total_repositories]

\* plot_license_distribution_by_type
plot_license_distribution_by_type(rows, thres, edge) ==
    DistributionByType("plot_license_distribution_by_type", rows,
                       [k \in DOMAIN rows |-> FillNa(k.license)], thres, TRUE, edge)

\* data['language'].fillna('None').replace({'other': 'Other',
\*                                          'Jupyter Notebook': 'Jupyter NB'})
CleanLanguage(v) ==
    CASE FillNa(v) = "other" -> "Other"
      [] FillNa(v) = "Jupyter Notebook" -> "Jupyter NB"
      [] OTHER -> FillNa(v)

\* plot_language_distribution_by_type (language_order=None)
plot_language_distribution_by_type(rows, thres, edge) ==
    DistributionByType("plot_language_distribution_by_type", rows,
                       [k \in DOMAIN rows |-> CleanLanguage(k.language)], thres, FALSE, edge)

\* DataFrame.notna() on a cell of a row of the distribution row-sets, whose
\* license and language are held as strings.
DistNotNa(k, f) == IF f \in {"license", "language"} THEN k[f] # NA ELSE NotNa(k[f])

\* grouped = data.groupby('Project Type').apply(lambda g: g.notna().sum()).T:
\* a row per feature and a row 'Project Type' (the grouping column is part
\* of each group), a column per project type.
FeatureCountsByType(rows, features) ==
    [f \in features \cup {"Project Type"} |->
        [t \in TypesOf(rows) |->
            RowCount(rows, {k \in Typed(rows) :
                /\ k.type_prediction_gpt_5_mini = t
                /\ (f # "Project Type" => DistNotNa(k, f))})]]

\* total_counts.sort_values().index.tolist()[-1]: sort_values sorts with
\* kind='quicksort', which does not say where equal totals end up, so the
\* last label is any label with the largest total.
LastOfOrder(grouped) ==
    {f \in DOMAIN grouped :
        \A g \in DOMAIN grouped : RowTotal(grouped[g]) <= RowTotal(grouped[f])}

\* plot_feature_counts_per_type (order=None): last is the label sort_values
\* puts last, edge the outcome of a row-set without a typed row.
plot_feature_counts_per_type(rows, features, last, edge) ==
    LET grouped == FeatureCountsByType(rows, features)
        total_repositories == Total(rows)
    IN IF TypesOf(rows) = {} /\ edge = "raise"
       THEN [drawn |-> TRUE, fn |-> "plot_feature_counts_per_type", exc |-> TRUE]
       ELSE [drawn |-> TRUE, fn |-> "plot_feature_counts_per_type", exc |-> FALSE,
             grouped |-> [f \in features |-> grouped[f]],
             last |-> last,
             project_type |-> grouped["Project Type"],
             percent |-> [f \in DOMAIN grouped |->
                            PercentLabel(RowTotal(grouped[f]), total_repositories)],
             total |-> total_repositories]

\* The kinds of rows a row-set handed to the distribution charts holds: a
\* license, a language, a project type (a string cell or None) and the
\* community-health cells of FeatureRow.
DistRow(lic, lang, typ, kind) ==
    [f \in FEATURES \cup {"language", "type_prediction_gpt_5_mini"} |->
        CASE f = "license" -> lic
          [] f = "language" -> lang
          [] f = "type_prediction_gpt_5_mini" -> typ
          [] OTHER -> FeatureRow(kind)[f]]

DistRowKinds ==
    {DistRow("MIT", "Python", Str(<<"D", "E", "V">>), "all"),
     DistRow("Other", "Other", Str(<<"D", "E", "V">>), "readme"),
     DistRow("other", "other", Str(<<"D", "O", "C", "S">>), "bare"),
     DistRow(NA, NA, None, "readme"),
     DistRow("GPL", "Jupyter Notebook", Str(<<" ", "E", "r", "r", "o", "r", " ">>), "all"),
     DistRow("MIT", "R", Str(<<"e", "r", "r", "o", "r">>), "bare")}

\* The values of other_thres the dashboard passes (0.009, 0.02, 0.1) and a
\* larger one, in thousandths.
OtherThresholds == {9, 20, 100, 500}

\* No distribution chart has been asked for.
DistIdle ==
    /\ dist_rows = [k \in DistRowKinds |-> 0]
    /\ other_thres = 20
    /\ dist_chart = NoDistChart

\* ------------------------------------------------------ repositories table

\* The columns display_df searches that the rows of the model carry.
searchable_columns == <<"full_name", "description", "language", "affiliation">>

\* A row of filtered_df() as the table and the detail panel read it. The
\* star, fork and download counts are left out: filtered_df() coerces them
\* and its range filters keep only the rows where they are numbers.
GridRow(id, full_name, description, language, affiliation, issues, contributors) ==
    [id |-> id, full_name |-> full_name, description |-> description,
     language |-> language, affiliation |-> affiliation,
     open_issues_count |-> issues, contributor_count |-> contributors]

GridRows ==
    {GridRow(1, Str(<<"p", "y">>), None, Str(<<"C">>), Num(9), Num(30), Num(20)),
     GridRow(2, Str(<<"P", "a">>), Str(<<"a", "(", "b">>), None, Num(10), NaN, Num(10)),
     GridRow(3, Str(<<"p", "x", "y">>), NaN, Str(<<"R">>), Num(8), Num(0), None),
     GridRow(4, Str(<<"q">>), Str(<<"P", "Y">>), Str(<<"R">>), Num(10), Str(<<"4">>), NaN)}

\* What filtered_df() can return: rows of the base table, each at most once.
GridTables ==
    {t \in UNION {[1..n -> GridRows] : n \in 0..MaxTableRows} :
        \A i, j \in 1..Len(t) : i # j => t[i] # t[j]}

\* What can be typed in the search box.
TableSearches ==
    {<<>>, <<" ">>, <<"p", "y">>, <<" ", "P", "Y", " ">>, <<"p", ".">>,
     <<"(">>, <<"n", "a", "n">>, <<"1", ".", "0">>, <<"z">>}

\* re.compile(pat) raises re.error for an opening parenthesis that is never
\* closed ("missing ), unterminated subpattern").
re_error(pat) ==
    \E i \in 1..Len(pat) :
        pat[i] = "(" /\ \A j \in (i + 1)..Len(pat) : pat[j] # ")"

\* re.search(pat, text) for a pattern of ordinary characters and '.', which
\* stands for any one character.
re_search(pat, text) ==
    \E o \in 0..(Len(text) - Len(pat)) :
        \A i \in 1..Len(pat) : pat[i] = "." \/ pat[i] = text[o + i]

\* pat in text: the reading of the term as the characters it is made of.
str_find(pat, text) ==
    \E o \in 0..(Len(text) - Len(pat)) :
        \A i \in 1..Len(pat) : pat[i] = text[o + i]

\* data[col].astype(str).str.lower().str.contains(search_term, na=False) on
\* one row; regex=True is the default of str.contains.
str_contains(row, col, search_term) ==
    re_search(search_term, str_lower(astype_str(row[col])))

\* The same test with regex=False.
str_contains_literal(row, col, search_term) ==
    str_find(search_term, str_lower(astype_str(row[col])))

\* The rows of a sequence that satisfy a test, in their order.
RECURSIVE SelectRows(_, _)
SelectRows(data, keep) ==
    IF data = <<>> THEN <<>>
    ELSE (IF Head(data).id \in keep THEN <<Head(data)>> ELSE <<>>)
         \o SelectRows(Tail(data), keep)

\* display_df: the rows handed to the DataGrid, or the exception raised
\* while the mask is computed.
display_df(data, table_search) ==
    IF table_search # <<>> /\ Len(str_strip(table_search)) > 0
    THEN LET search_term == str_lower(str_strip(table_search))
         IN IF re_error(search_term)
            THEN [exc |-> TRUE, rows |-> <<>>]
            ELSE [exc |-> FALSE,
                  rows |-> SelectRows(data,
                      {data[i].id : i \in
                          {i \in 1..Len(data) :
                              \E c \in 1..Len(searchable_columns) :
                                  str_contains(data[i], searchable_columns[c], search_term)}})]
    ELSE [exc |-> FALSE, rows |-> data]

\* int(x) on a cell: ValueError for NaN and for a string that is not an
\* integer literal, TypeError for None.
IntRaises(cell) ==
    CASE cell.k = "num" -> FALSE
      [] cell.k = "str" -> ~AllDigits(cell.s)
      [] OTHER -> TRUE

\* The panel with nothing selected, the panel of one row and the failed
\* render.
NoPanel == [k |-> "empty", id |-> 0]
PanelOf(row) == [k |-> "shown", id |-> row.id]
PanelError == [k |-> "error", id |-> 0]

\* show_clicked: selected_rows holds the positions (from 1) of the selected
\* rows of the DataGrid.
show_clicked(data, selected_rows) ==
    IF selected_rows = <<>> THEN NoPanel
    ELSE LET row_idx == selected_rows[1]
             selected == data[row_idx]
         IN IF IntRaises(selected.open_issues_count)
               \/ IntRaises(selected.contributor_count)
            THEN PanelError
            ELSE PanelOf(selected)

\* The table before the session renders it.
NoGrid == [data |-> <<>>, table_search |-> <<>>,
           shown |-> [exc |-> FALSE, rows |-> <<>>], selected_rows |-> <<>>]

\* The repositories table is not modelled in this specification.
TableIdle ==
    /\ grid = NoGrid
    /\ panel = NoPanel

\* ---------------------------------------------------------------- the load

\* The first institutions of ACRONYMS (the source lists 32), two of them
\* written with a space.
ACRONYMS == <<"UCB", "Georgia Tech", "UT Austin", "Stanford", "UCI">>
Institutions == {ACRONYMS[i] : i \in 1..MaxAcronyms}

\* What Data/parquet holds for an institution: no directory for its key;
\* a directory without repositories.parquet; a file no read can open; a
\* file that lacks some of COLUMNS_TO_LOAD, so that only the second read
\* opens it; a file with every column; a file with every column that also
\* lists a repository other institutions list too ("mirror"). And what
\* config/config_<acronym>.json is: absent, unreadable, or naming the
\* university.
SourceKinds ==
    {[dir |-> FALSE, file |-> "missing", config |-> "absent"],
     [dir |-> TRUE, file |-> "missing", config |-> "absent"],
     [dir |-> TRUE, file |-> "corrupt", config |-> "absent"],
     [dir |-> TRUE, file |-> "mirror", config |-> "absent"]}
    \cup {[dir |-> TRUE, file |-> f, config |-> c] :
              f \in {"partial", "full"}, c \in {"absent", "broken", "named"}}

\* The repositories the parquet file of the i-th institution holds: two of
\* its own, and in a "mirror" file the repository 1 as well.
RepoIds(i, file) ==
    {10 * i + 1, 10 * i + 2} \cup (IF file = "mirror" THEN {1} ELSE {})
IndexOf(acronym) == CHOOSE i \in 1..Len(ACRONYMS) : ACRONYMS[i] = acronym

\* The UNIVERSITY_NAME the config file of each institution gives.
UNIVERSITY_NAME ==
    <<"University of California, Berkeley", "Georgia Institute of Technology",
      "University of Texas at Austin", "Stanford University",
      "University of California, Irvine">>

\* df["university"]: UNIVERSITY_NAME of the config file, the acronym when
\* the file is absent or cannot be read.
UniversityOf(acronym, src) ==
    IF src.config = "named" THEN UNIVERSITY_NAME[IndexOf(acronym)] ELSE acronym

\* A row of a parquet file: the repository n of the pool under the
\* university given; the index label is given by the concatenation.
FileRow(n, uni) ==
    LET r == PoolRow(0, n)
    IN [c \in DOMAIN r \ {"idx"} |-> IF c = "university" THEN uni ELSE r[c]]

\* _load_one_acronym(acronym, parquet_dir): None when the file is missing;
\* the second read_parquet is outside the try, so a file no read can open
\* raises out of the function; else the rows with their university.
load_one_acronym(acronym, src) ==
    IF src.file = "missing" THEN [k |-> "none", rows |-> {}]
    ELSE IF src.file = "corrupt" THEN [k |-> "raise", rows |-> {}]
    ELSE [k |-> "df",
          rows |-> {FileRow(n, UniversityOf(acronym, src)) :
                       n \in RepoIds(IndexOf(acronym), src.file)}]

\* The institutions submitted to the executor, in the order of ACRONYMS:
\* those whose key has a directory.
Submitted(inst) ==
    SelectSeq(SubSeq(ACRONYMS, 1, MaxAcronyms), LAMBDA a : inst[a].dir)

\* pd.DataFrame(): a table without rows and without columns.
EmptyFrame == [columns |-> FALSE, rows |-> {}]

\* pd.concat(df_list, ignore_index=True) if df_list else pd.DataFrame()
Concat(df_list) ==
    IF df_list = <<>> THEN EmptyFrame
    ELSE [columns |-> TRUE,
          rows |-> UNION {df_list[i] : i \in 1..Len(df_list)}]

\* What a log call leaves: its level and what it names.
LogEntry(level, what) == [level |-> level, what |-> what]

\* for future, acronym in submitted: the tables of the futures that gave
\* one are appended in order; a future that gave None is logged with
\* logging.error, one that raised with logging.exception.
RECURSIVE Gather(_, _)
Gather(submitted, inst) ==
    IF submitted = <<>> THEN [df_list |-> <<>>, log |-> {}]
    ELSE LET acronym == Head(submitted)
             result == load_one_acronym(acronym, inst[acronym])
             rest == Gather(Tail(submitted), inst)
         IN CASE result.k = "df" ->
                     [df_list |-> <<result.rows>> \o rest.df_list, log |-> rest.log]
              [] result.k = "none" ->
                     [df_list |-> rest.df_list,
                      log |-> {LogEntry("error", acronym)} \cup rest.log]
              [] OTHER ->
                     [df_list |-> rest.df_list,
                      log |-> {LogEntry("exception", acronym)} \cup rest.log]

\* The rows of the pre-merged parquet: those of every institution, under
\* the university written into it.
CombinedRows ==
    UNION {{FileRow(n, a) : n \in RepoIds(IndexOf(a), "full")} :
              a \in Institutions}

\* The load before it runs.
NotLoaded == [done |-> FALSE, df |-> EmptyFrame]

\* ThreadPoolExecutor(max_workers=min(8, len(ACRONYMS) or 1))
PoolWorkers == 8
max_workers ==
    LET n == IF Len(ACRONYMS) = 0 THEN 1 ELSE Len(ACRONYMS)
    IN IF PoolWorkers < n THEN PoolWorkers ELSE n

\* A future of the executor: not created, waiting in the work queue, run by
\* a worker thread, or finished with what _load_one_acronym gave.
Future(state, result) == [state |-> state, result |-> result]
NoResult == [k |-> "none", rows |-> {}]

\* The executor at its creation: the loop over ACRONYMS is at its first
\* element, nothing is submitted, df_list is empty. 'returned' lists the
\* institutions in the order in which their workers returned.
NewPool ==
    [phase |-> "submitting", at |-> 1, submitted |-> <<>>,
     futures |-> [a \in Institutions |-> Future("none", NoResult)],
     returned |-> <<>>, next |-> 1, df_list |-> <<>>]

\* The work queue is first in, first out: the future a worker thread takes
\* is the pending one submitted first.
FirstPending(p) ==
    LET waiting == {i \in 1..Len(p.submitted) :
                       p.futures[p.submitted[i]].state = "pending"}
    IN p.submitted[CHOOSE i \in waiting : \A j \in waiting : i <= j]

\* One pass of 'for future, acronym in submitted' on a finished future.
GatherOne(p, entries, acronym, result) ==
    CASE result.k = "df" ->
             [p |-> [p EXCEPT !.next = @ + 1, !.df_list = Append(@, result.rows)],
              log |-> entries]
      [] result.k = "none" ->
             [p |-> [p EXCEPT !.next = @ + 1],
              log |-> entries \cup {LogEntry("error", acronym)}]
      [] OTHER ->
             [p |-> [p EXCEPT !.next = @ + 1],
              log |-> entries \cup {LogEntry("exception", acronym)}]

\* The module-level steps after the load: the option lists of the selectize
\* inputs, each read under a test for its column; the affiliation column,
\* read without one, so that a table without columns raises KeyError out
\* of the import; the slider maxima; then the UI and the chat are set up.
StartupSteps(frame) ==
    IF ~frame.columns
    THEN [state |-> "crashed", at |-> "affiliation_prediction_gpt_5_mini",
          universities |-> {}, slider_max |-> SliderMaxima({})]
    ELSE [state |-> "running", at |-> "",
          universities |-> Choices(frame.rows, "university"),
          slider_max |-> SliderMaxima(frame.rows)]

\* The startup steps have not run; the executor has not been created.
Importing == [state |-> "importing"]
NoPool == [phase |-> "none"]

\* The load is not modelled in this specification.
LoadIdle ==
    /\ sources = [combined |-> "absent", inst |-> [a \in Institutions |-> CHOOSE k \in SourceKinds : ~k.dir]]
    /\ loaded = NotLoaded
    /\ log = {}
    /\ startup = Importing
    /\ pool = NoPool

\* ------------------------------------------------------------------ session


\* The value of last_reset after any handler but reset_all_filters.
NoReset == [ran |-> FALSE, sess |-> "none", exc |-> FALSE]

\* A reactive calc whose inputs changed holds no value until it is read again.
Invalidated == [valid |-> FALSE, rows |-> {}, exc |-> FALSE]

\* The id sets a chat table with an id column can hold, and the index-label
\* sets of one without.
ChatIdSets == SUBSET {2, 3, MaxRows}
ChatIndexSets == SUBSET {0, 2}

ChatOutcomes ==
    {ChatRaises, ChatReturnsNone}
        \cup {ChatTable(TRUE, S) : S \in ChatIdSets}
        \cup {ChatTable(FALSE, S) : S \in ChatIndexSets}

\* The column a selectize input filters.
SelectColumn(name) ==
    IF name = "type" THEN "type_prediction_gpt_5_mini" ELSE name

SelectNames == {"university", "type", "license", "language"}
CountSliders == {"slider_stars", "slider_forks", "slider_downloads"}

\* The maximum of a count slider.
SliderTop(name) ==
    CASE name = "slider_stars" -> slider_max.stars
      [] name = "slider_forks" -> slider_max.forks
      [] name = "slider_downloads" -> slider_max.downloads

\* The positions the user drags a slider handle to.
CountTicks(name) == {v \in {0, 2 * Scale, SliderTop(name)} : v <= SliderTop(name)}
ThresholdTicks == {5, ThresholdLo, 9, ThresholdHi}

Init ==
    /\ df \in Tables
    /\ slider_max = SliderMaxima(df)
    /\ input = DefaultInputs(slider_max)
    /\ chat \in {ChatAbsent, ChatTable(TRUE, {r.id : r \in Df08(df)})}
    /\ chat_message = ""
    /\ filtered = Invalidated
    /\ last_reset = NoReset
    /\ edits = 0
    /\ applied = {}
    /\ working = {}
    /\ filtered_data = <<>>
    /\ feature_chart = NoChart
    /\ HeatIdle /\ CommitsIdle /\ DistIdle /\ LoadIdle /\ TableIdle

\* The user changes the selection of a selectize input.
SetSelection(name, sel) ==
    /\ edits < MaxEdits
    /\ sel \subseteq Choices(df, SelectColumn(name))
    /\ sel # input[name]
    /\ input' = [input EXCEPT ![name] = sel]
    /\ filtered' = Invalidated
    /\ last_reset' = NoReset
    /\ edits' = edits + 1
    /\ UNCHANGED <<df, slider_max, chat, chat_message, replayVars, chartVars,
                   heatVars, commitVars, distVars, loadVars, tableVars>>

\* The user drags the handles of a slider.
SetSlider(name, lo, hi) ==
    /\ edits < MaxEdits
    /\ lo <= hi
    /\ <<lo, hi>> # input[name]
    /\ input' = [input EXCEPT ![name] = <<lo, hi>>]
    /\ filtered' = Invalidated
    /\ last_reset' = NoReset
    /\ edits' = edits + 1
    /\ UNCHANGED <<df, slider_max, chat, chat_message, replayVars, chartVars,
                   heatVars, commitVars, distVars, loadVars, tableVars>>

\* The user types in the table's search box (no input of filtered_df).
SetSearch(text) ==
    /\ edits < MaxEdits
    /\ text # input.table_search
    /\ input' = [input EXCEPT !.table_search = text]
    /\ last_reset' = NoReset
    /\ edits' = edits + 1
    /\ UNCHANGED <<df, slider_max, chat, chat_message, filtered, replayVars, chartVars,
                   heatVars, commitVars, distVars, loadVars, tableVars>>

\* The inputs filtered_df reads (table_search is read by display_df only).
FilterInputs(in) == [in EXCEPT !.table_search = ""]

\* The ui.update_* calls of reset_all_filters.
ResetInputs(in, mx) ==
    [in EXCEPT !.university = {}, !.type = {}, !.license = {}, !.language = {},
               !.slider_stars = <<0, mx.stars>>,
               !.slider_forks = <<0, mx.forks>>,
               !.slider_downloads = <<0, mx.downloads>>,
               !.table_search = ""]

\* The try block of reset_all_filters: the value of the chat input after it
\* and whether an exception left it.  sess is what get_current_session()
\* gives: no session ("none"), a session ("ok"), or a session whose
\* send_input_message raises ("raises").
ResetTry(msg, sess) ==
    CASE sess = "none" -> [msg |-> msg, exc |-> FALSE]
      [] sess = "ok" -> [msg |-> "reset all filters", exc |-> FALSE]
      [] sess = "raises" -> [msg |-> msg, exc |-> TRUE]

\* The try block without its handler: the exception leaves reset_all_filters.
ResetChatUncaught(msg, sess) == ResetTry(msg, sess)

\* try: ... except Exception: pass
ResetChat(msg, sess) ==
    LET t == ResetTry(msg, sess) IN
    IF t.exc THEN [msg |-> t.msg, exc |-> FALSE] ELSE t

\* reset_all_filters: the click on "Reset All Filters".
ResetAllFilters(sess) ==
    /\ input' = ResetInputs(input, slider_max)
    /\ chat_message' = ResetChat(chat_message, sess).msg
    /\ filtered' = IF FilterInputs(input') = FilterInputs(input) THEN filtered
                   ELSE Invalidated
    /\ last_reset' = [ran |-> TRUE, sess |-> sess,
                      exc |-> ResetChat(chat_message, sess).exc]
    /\ UNCHANGED <<df, slider_max, chat, edits, replayVars, chartVars,
                   heatVars, commitVars, distVars, loadVars, tableVars>>

\* The chat adapter takes the message of its input, if any, and answers a
\* query: its df() gives a new outcome.
ChatAnswers(c) ==
    /\ chat.k # "absent"
    /\ c # chat
    /\ chat' = c
    /\ chat_message' = ""
    /\ filtered' = Invalidated
    /\ last_reset' = NoReset
    /\ UNCHANGED <<df, slider_max, input, edits, replayVars, chartVars,
                   heatVars, commitVars, distVars, loadVars, tableVars>>

\* A consumer reads filtered_df(): the calc runs when it holds no value.
FilteredDf ==
    /\ ~filtered.valid
    /\ filtered' = [valid |-> TRUE] @@ filtered_df(df, input, chat)
    /\ last_reset' = NoReset
    /\ UNCHANGED <<df, slider_max, input, chat, chat_message, edits, replayVars, chartVars,
                   heatVars, commitVars, distVars, loadVars, tableVars>>

Next ==
    \/ \E name \in SelectNames :
           \E sel \in SUBSET Choices(df, SelectColumn(name)) : SetSelection(name, sel)
    \/ \E name \in CountSliders :
           \E lo \in CountTicks(name), hi \in CountTicks(name) : SetSlider(name, lo, hi)
    \/ \E lo \in ThresholdTicks, hi \in ThresholdTicks :
           SetSlider("slider_threshold", lo, hi)
    \/ \E text \in {"", "ucb"} : SetSearch(text)
    \/ \E sess \in {"none", "ok", "raises"} : ResetAllFilters(sess)
    \/ \E c \in ChatOutcomes : ChatAnswers(c)
    \/ FilteredDf

Spec == Init /\ [][Next]_vars

\* ------------------------------------------------- properties of the session

Idx(rows) == {r.idx : r \in rows}
Ids(rows) == {r.id : r \in rows}

\* The chat adapter gives filtered_df nothing to intersect with.
NoChatResult(c) ==
    c.k \in {"absent", "raise", "none"} \/ (c.k = "df" /\ c.keys = {})

\* The cell coerces to a number of [lo, hi].
Within(cell, lo, hi) ==
    LET v == ToNumeric(cell) IN v.k = "num" /\ lo <= v.n /\ v.n <= hi

\* C2: when the chat result is a non-empty table with an id column, the
\* filtered row-set is exactly the rows of the manual-filter result whose
\* id is one of the chat result's ids.
ChatIntersection ==
    (filtered.valid /\ chat.k = "df" /\ chat.hasId /\ chat.keys # {}) =>
        /\ ~filtered.exc
        /\ filtered.rows \subseteq ManualFilter(df, input)
        /\ Ids(filtered.rows) = Ids(ManualFilter(df, input)) \cap chat.keys

\* The scenario of C2: manual ids {1,2,3,4}, chat ids {2,3,5}, result {2,3}.
ChatIntersectionWitness ==
    /\ filtered.valid
    /\ chat = ChatTable(TRUE, {2, 3, 5})
    /\ Ids(ManualFilter(df, input)) = {1, 2, 3, 4}
    /\ Ids(filtered.rows) = {2, 3}

\* C3: when the chat handle is absent, or its df() raises, returns None or
\* returns zero rows, filtered_df returns the manual-filter result and no
\* exception leaves it.
ChatFallback ==
    (filtered.valid /\ NoChatResult(chat)) =>
        /\ ~filtered.exc
        /\ filtered.rows = ManualFilter(df, input)

\* chat.df() raised while the manual filters kept some rows and dropped others.
ChatFallbackWitness ==
    /\ filtered.valid
    /\ chat.k = "raise"
    /\ filtered.rows # {}
    /\ Idx(filtered.rows) # Idx(df)

\* C4: after reset_all_filters every manual filter parameter, the
\* prediction-threshold range included, equals its default.
ResetRestoresEveryDefault ==
    last_reset.ran => input = DefaultInputs(slider_max)

\* C5: reset_all_filters leaves the chat adapter's result alone and only
\* sets the chat input to "reset all filters" when a session exists and the
\* send succeeds; no exception leaves it, and whatever the session call
\* does, the selections, the three count sliders and the search text it
\* updates are at their defaults.  (The threshold slider is C4's.)
ResetOnlyMessagesChat ==
    [][last_reset'.ran =>
          /\ chat' = chat
          /\ chat_message' = IF last_reset'.sess = "ok" THEN "reset all filters"
                             ELSE chat_message
          /\ ~last_reset'.exc
          /\ [input' EXCEPT !.slider_threshold = <<ThresholdLo, ThresholdHi>>]
                = DefaultInputs(slider_max)]_vars

\* A reset whose send raised, after the user had changed an input it resets,
\* with a chat result in place.
ResetOnlyMessagesChatWitness ==
    /\ last_reset.ran
    /\ last_reset.sess = "raises"
    /\ edits > 0
    /\ input = DefaultInputs(slider_max)
    /\ chat.k = "df" /\ chat.keys # {}
    /\ chat_message = ""

\* The manual parameters are the startup defaults.
AtDefaults == FilterInputs(input) = FilterInputs(DefaultInputs(slider_max))

\* C8 as stated: with every manual parameter at its default and no chat
\* filter, filtered_df returns every row of the base table.
DefaultSelectionKeepsAllRows ==
    (filtered.valid /\ AtDefaults /\ NoChatResult(chat)) =>
        Idx(filtered.rows) = Idx(df)

\* The row passes the default ranges of the four sliders.
WithinDefaults(r) ==
    /\ Within(r.affiliation_prediction_gpt_5_mini, 8, 10)
    /\ Within(r.stargazers_count, 0, slider_max.stars)
    /\ Within(r.forks_count, 0, slider_max.forks)
    /\ Within(r.release_downloads, 0, slider_max.downloads)

\* C8 amended: with every manual parameter at its default and no chat
\* filter, filtered_df returns exactly the rows whose affiliation
\* probability coerces to a number of [0.8, 1] and whose stars, forks and
\* downloads coerce to numbers of [0, default maximum]; the empty
\* categorical selections drop nothing.
DefaultSelectionKeepsRowsWithinDefaults ==
    (filtered.valid /\ AtDefaults /\ NoChatResult(chat)) =>
        Idx(filtered.rows) = {r.idx : r \in {q \in df : WithinDefaults(q)}}

\* The defaults keep some rows of the base table and drop others.
DefaultSelectionWitness ==
    /\ filtered.valid /\ AtDefaults /\ NoChatResult(chat)
    /\ filtered.rows # {}
    /\ Idx(filtered.rows) # Idx(df)

\* The maximum of a column's coerced values over the rows with affiliation
\* probability >= 0.8, or fb when there is none.
ExpectedMax(col, fb) ==
    LET sub == {q \in df : Within(q.affiliation_prediction_gpt_5_mini, 8, 10 * Scale)}
        nums == {ToNumeric(r[col]).n : r \in {q \in sub : ToNumeric(q[col]).k = "num"}}
    IN IF nums = {} THEN fb * Scale
       ELSE CHOOSE m \in nums : \A n \in nums : n <= m

\* C9: each slider maximum is the maximum of the column's coerced values
\* over the rows with affiliation probability >= 0.8, non-coercible values
\* ignored, and 5000, 100 and 1000 when there is no such value.
StartupSliderMaxima ==
    /\ slider_max.stars = ExpectedMax("stargazers_count", 5000)
    /\ slider_max.forks = ExpectedMax("forks_count", 100)
    /\ slider_max.downloads = ExpectedMax("release_downloads", 1000)

\* A table whose rows with probability >= 0.8 hold no coercible star count
\* but a fork count: the stars maximum falls back, the forks maximum does not.
StartupSliderMaximaWitness ==
    /\ Df08(df) # {}
    /\ slider_max.stars = 5000 * Scale
    /\ slider_max.forks # 100 * Scale

\* -------------------------------------------------- replay of the predicates

\* The eight manual predicates of filtered_df, named by the input they read.
Predicates == SelectNames \cup CountSliders \cup {"slider_threshold"}

\* One predicate of filtered_df applied to a result.
ApplyOne(p, result, in) ==
    CASE p = "university" -> FilterUniversity(result, in)
      [] p = "type" -> FilterType(result, in)
      [] p = "license" -> FilterLicense(result, in)
      [] p = "language" -> FilterLanguage(result, in)
      [] p = "slider_stars" -> FilterStars(result, in)
      [] p = "slider_forks" -> FilterForks(result, in)
      [] p = "slider_downloads" -> FilterDownloads(result, in)
      [] p = "slider_threshold" -> FilterThreshold(result, in)

\* The column a predicate reads.
PredicateColumn(p) ==
    CASE p \in SelectNames -> SelectColumn(p)
      [] p = "slider_stars" -> "stargazers_count"
      [] p = "slider_forks" -> "forks_count"
      [] p = "slider_downloads" -> "release_downloads"
      [] p = "slider_threshold" -> "affiliation_prediction_gpt_5_mini"

\* A narrowed setting of each input, as far as the selectize choices and the
\* slider of this table allow it.
NarrowSelection(base, name) ==
    Choices(base, SelectColumn(name)) \cap
        (CASE name = "university" -> {"UCB"}
           [] name = "type" -> {"DEV"}
           [] name = "license" -> {"MIT", "GPL"}
           [] name = "language" -> {"Python"})

NarrowRange(mx, name) ==
    CASE name = "slider_stars" -> <<IF 2 * Scale <= mx.stars THEN 2 * Scale ELSE 0, mx.stars>>
      [] name = "slider_forks" -> <<0, IF 2 * Scale <= mx.forks THEN 2 * Scale ELSE mx.forks>>
      [] name = "slider_downloads" -> <<0, 0>>
      [] name = "slider_threshold" -> <<5, 9>>

\* The settings of the manual inputs the replay starts from: every input at
\* its default or narrowed.
ReplayInputs(base, mx) ==
    {[university |-> u, type |-> t, license |-> l, language |-> g,
      slider_stars |-> s, slider_forks |-> f, slider_downloads |-> d,
      slider_threshold |-> h, table_search |-> ""] :
        u \in {{}, NarrowSelection(base, "university")},
        t \in {{}, NarrowSelection(base, "type")},
        l \in {{}, NarrowSelection(base, "license")},
        g \in {{}, NarrowSelection(base, "language")},
        s \in {<<0, mx.stars>>, NarrowRange(mx, "slider_stars")},
        f \in {<<0, mx.forks>>, NarrowRange(mx, "slider_forks")},
        d \in {<<0, mx.downloads>>, NarrowRange(mx, "slider_downloads")},
        h \in {<<ThresholdLo, ThresholdHi>>, NarrowRange(mx, "slider_threshold")}}

\* result = df.copy(), no predicate applied yet, no chat handle.
InitReplay ==
    /\ df \in Tables
    /\ slider_max = SliderMaxima(df)
    /\ input \in ReplayInputs(df, slider_max)
    /\ chat = ChatAbsent
    /\ chat_message = ""
    /\ filtered = Invalidated
    /\ last_reset = NoReset
    /\ edits = 0
    /\ applied = {}
    /\ working = df
    /\ filtered_data = <<>>
    /\ feature_chart = NoChart
    /\ HeatIdle /\ CommitsIdle /\ DistIdle /\ LoadIdle /\ TableIdle

\* One more predicate of filtered_df is applied, in any order.
ApplyPredicate(p) ==
    /\ p \notin applied
    /\ working' = ApplyOne(p, working, input)
    /\ applied' = applied \cup {p}
    /\ UNCHANGED <<df, slider_max, input, chat, chat_message, filtered,
                   last_reset, edits, chartVars,
                   heatVars, commitVars, distVars, loadVars, tableVars>>

NextReplay ==
    \/ \E p \in Predicates : ApplyPredicate(p)
    \/ (applied = Predicates /\ FilteredDf)

SpecReplay == InitReplay /\ [][NextReplay]_vars

\* C1: whatever the order in which the eight manual predicates are applied,
\* the rows kept are exactly the rows filtered_df keeps in its fixed order.
OrderIndependence ==
    (applied = Predicates /\ filtered.valid) => working = filtered.rows

\* All predicates applied, at least two of them narrowed, some rows kept
\* and some dropped.
OrderIndependenceWitness ==
    /\ applied = Predicates /\ filtered.valid
    /\ input.university # {} /\ input.slider_stars # <<0, slider_max.stars>>
    /\ working # {}
    /\ Idx(working) # Idx(df)

\* C6: a numeric range predicate with lo <= hi keeps exactly the rows whose
\* value coerces to a number v with lo <= v <= hi, both bounds included;
\* rows with a missing or non-coercible value are dropped.
RangeInclusive ==
    [][\A p \in CountSliders \cup {"slider_threshold"} :
          (p \in applied' \ applied /\ input[p][1] <= input[p][2]) =>
              Idx(working') =
                  {r.idx : r \in {q \in working :
                      Within(q[PredicateColumn(p)], input[p][1], input[p][2])}}]_vars

\* The stars predicate alone: it kept a row at its upper bound and a row at
\* its lower bound and dropped a row whose star count is not coercible.
RangeInclusiveWitness ==
    /\ applied = {"slider_stars"}
    /\ \E r \in working : r.stargazers_count.n = input.slider_stars[2]
    /\ \E r \in working : r.stargazers_count.n = input.slider_stars[1]
    /\ \E r \in df : r.idx \notin Idx(working) /\ ToNumeric(r.stargazers_count).k = "nan"

\* C7: a categorical predicate with an empty selection keeps all rows; with
\* a non-empty selection it keeps exactly the rows whose value is selected.
CategoricalMembership ==
    [][\A p \in SelectNames :
          p \in applied' \ applied =>
              working' = IF input[p] = {} THEN working
                         ELSE {r \in working : r[SelectColumn(p)] \in input[p]}]_vars

\* The university predicate with an empty selection and the license
\* predicate with a non-empty one were applied: some rows are kept, some not.
CategoricalMembershipWitness ==
    /\ applied = {"university", "license"}
    /\ input.university = {} /\ input.license # {}
    /\ working # {} /\ working # df

\* -------------------------------------------------------- the feature chart

\* The dashboard session, the replay and the feature chart are not part of
\* the specification at hand.
DashboardIdle ==
    /\ df = {}
    /\ slider_max = SliderMaxima(df)
    /\ input = DefaultInputs(slider_max)
    /\ chat = ChatAbsent
    /\ chat_message = ""
    /\ filtered = Invalidated
    /\ last_reset = NoReset
    /\ edits = 0
    /\ applied = {}
    /\ working = {}
    /\ filtered_data = <<>>
    /\ feature_chart = NoChart

InitChart == DashboardIdle /\ HeatIdle /\ CommitsIdle /\ DistIdle /\ LoadIdle /\ TableIdle

\* The row-set to plot gains a row.
AddFeatureRow(kind) ==
    /\ ~feature_chart.drawn
    /\ Len(filtered_data) < MaxChartRows
    /\ filtered_data' = Append(filtered_data, FeatureRow(kind))
    /\ UNCHANGED <<feature_chart, sessionVars, replayVars,
                   heatVars, commitVars, distVars, loadVars, tableVars>>

\* plot_feature_counts(filtered_data, FEATURES, ...)
PlotFeatureCounts ==
    /\ ~feature_chart.drawn
    /\ feature_chart' = plot_feature_counts(filtered_data, FEATURES)
    /\ UNCHANGED <<filtered_data, sessionVars, replayVars,
                   heatVars, commitVars, distVars, loadVars, tableVars>>

NextChart ==
    \/ \E kind \in FeatureRowKinds : AddFeatureRow(kind)
    \/ PlotFeatureCounts

SpecChart == InitChart /\ [][NextChart]_vars

\* The rows of the plotted row-set whose feature f is not null.
RowsWith(f) == {i \in 1..Len(filtered_data) : filtered_data[i][f].k \notin {"none", "nan"}}

\* C10: for every feature the bar is the number of rows of the plotted
\* row-set with a non-null value, and the label is 100 * count / (number of
\* rows of the plotted row-set) to one decimal.
FeatureCountsOfRowSet ==
    feature_chart.drawn =>
        \A f \in FEATURES :
            /\ feature_chart.counts[f] = Cardinality(RowsWith(f))
            /\ Len(filtered_data) > 0 =>
                  /\ feature_chart.labels[f].k = "num"
                  /\ LET d == feature_chart.labels[f].n * Len(filtered_data)
                              - 1000 * Cardinality(RowsWith(f))
                     IN 2 * d <= Len(filtered_data) /\ -2 * d <= Len(filtered_data)

\* The scenario of C10: 10 rows, 7 of them with a README: 7 and 70.0%.
FeatureCountsWitness ==
    /\ feature_chart.drawn
    /\ Len(filtered_data) = 10
    /\ Cardinality(RowsWith("readme")) = 7
    /\ feature_chart.counts["readme"] = 7
    /\ feature_chart.labels["readme"] = Num(700)

\* A feature value that is both non-null and non-empty.
NonEmpty(cell) == cell.k \notin {"none", "nan"} /\ (cell.k = "str" => cell.s # <<>>)

\* C11: every consumer of a community-health feature counts it as present
\* for a row if and only if the value is non-null and non-empty: the bar of
\* the feature chart is the number of such rows, and the detail panel marks
\* the feature present for exactly such rows.
FeaturePresentIffNonEmpty ==
    feature_chart.drawn =>
        \A f \in FEATURES :
            /\ feature_chart.counts[f] =
                  Cardinality({i \in 1..Len(filtered_data) : NonEmpty(filtered_data[i][f])})
            /\ f \in HealthChecks =>
                  \A i \in 1..Len(filtered_data) :
                      HealthCheck(filtered_data[i][f]) <=> NonEmpty(filtered_data[i][f])

\* C19: plot_feature_counts given an empty row-set draws a zeroed chart:
\* every bar is 0 and every label is 0.0%, none is left undefined.
EmptyRowSetZeroed ==
    (feature_chart.drawn /\ filtered_data = <<>>)
    => \A f \in FEATURES :
           /\ feature_chart.counts[f] = 0
           /\ feature_chart.labels[f] = Num(0)

\* ------------------------------------------------------ the star-bucket charts

coreVars == <<sessionVars, replayVars, chartVars>>

InitHeat == DashboardIdle /\ HeatIdle /\ CommitsIdle /\ DistIdle /\ LoadIdle /\ TableIdle

\* The row-set handed to the star-bucket charts gains a row.
AddHeatRow(k) ==
    /\ ~heatmap.drawn /\ ~star_chart.drawn
    /\ RowCount(heat_rows, DOMAIN heat_rows) < MaxHeatRows
    /\ heat_rows' = [heat_rows EXCEPT ![k] = @ + 1]
    /\ UNCHANGED <<heatmap, star_chart, coreVars, commitVars, distVars, loadVars, tableVars>>

\* plot_feature_heatmap_by_star_bucket(dev_df, FEATURES, ...)
PlotHeatmap ==
    /\ ~heatmap.drawn
    /\ heatmap' = plot_feature_heatmap_by_star_bucket(heat_rows, FEATURES)
    /\ UNCHANGED <<heat_rows, star_chart, coreVars, commitVars, distVars, loadVars, tableVars>>

\* plot_feature_distribution_by_star_bucket(df, FEATURES, ...)
PlotStarBuckets ==
    /\ ~star_chart.drawn
    /\ star_chart' = plot_feature_distribution_by_star_bucket(heat_rows, FEATURES)
    /\ UNCHANGED <<heat_rows, heatmap, coreVars, commitVars, distVars, loadVars, tableVars>>

NextHeat ==
    \/ \E k \in HeatRowKinds : AddHeatRow(k)
    \/ PlotHeatmap
    \/ PlotStarBuckets

SpecHeat == InitHeat /\ [][NextHeat]_vars

\* The bands of the two charts as ranges of whole star counts: a band
\* without lower end takes every count up to its upper end.
StarBands ==
    {[label |-> "0-10", lo |-> {}, hi |-> {10}],
     [label |-> "11-50", lo |-> {11}, hi |-> {50}],
     [label |-> "51-100", lo |-> {51}, hi |-> {100}],
     [label |-> "101-200", lo |-> {101}, hi |-> {200}],
     [label |-> ">200", lo |-> {201}, hi |-> {}]}

StarBands3 ==
    {[label |-> "0-100", lo |-> {}, hi |-> {100}],
     [label |-> "101-500", lo |-> {101}, hi |-> {500}],
     [label |-> ">500", lo |-> {501}, hi |-> {}]}

InBand(n, band) ==
    /\ \A lo \in band.lo : n >= lo * Scale
    /\ \A hi \in band.hi : n <= hi * Scale

\* The rows of the plotted row-set whose star count is a whole number.
WholeStars ==
    {k \in DOMAIN heat_rows :
        /\ heat_rows[k] > 0
        /\ k.stargazers_count.k = "num"
        /\ k.stargazers_count.n % Scale = 0}

\* C12: star bucketing is a partition of the star counts: every whole star
\* count lies in the range of exactly one band of the heatmap and of exactly
\* one band of the 3-bucket chart, and that band is the one assigned, so
\* that each boundary value is in the lower band.
StarBucketsPartition ==
    /\ heatmap.drawn =>
          \A k \in WholeStars :
              {b.label : b \in {c \in StarBands : InBand(k.stargazers_count.n, c)}}
                  = {heatmap.star_bucket[k]}
    /\ star_chart.drawn =>
          \A k \in WholeStars :
              {b.label : b \in {c \in StarBands3 : InBand(k.stargazers_count.n, c)}}
                  = {star_chart.star_bucket[k]}

\* The scenario of C12: rows with 10, 11 and 201 stars fall in '0-10',
\* '11-50' and '>200' of the heatmap; 10 falls in '0-100' of the 3-bucket
\* chart.
StarBucketsWitness ==
    /\ heatmap.drawn /\ star_chart.drawn
    /\ \E k \in WholeStars :
          k.stargazers_count.n = 10 * Scale /\ heatmap.star_bucket[k] = "0-10"
             /\ star_chart.star_bucket[k] = "0-100"
    /\ \E k \in WholeStars :
          k.stargazers_count.n = 11 * Scale /\ heatmap.star_bucket[k] = "11-50"
    /\ \E k \in WholeStars :
          k.stargazers_count.n = 201 * Scale /\ heatmap.star_bucket[k] = ">200"

\* The rows of the plotted row-set whose star count is a number within
\* the bounds of a band (above the band below it, up to its upper end).
RowsInBand(band) ==
    RowCount(heat_rows,
             {k \in DOMAIN heat_rows :
                 /\ k.stargazers_count.k = "num"
                 /\ \A lo \in band.lo : k.stargazers_count.n > (lo - 1) * Scale
                 /\ \A hi \in band.hi : k.stargazers_count.n <= hi * Scale})

\* C30: in the heatmap and in the 3-bucket chart the rows counted in a
\* band are the rows whose star count lies within the band's bounds, also
\* when the row-set holds rows without a star count: the denominator of
\* every band is the number of rows with a star count in the band.
BandRowsWithinBounds ==
    /\ heatmap.drawn =>
          \A b \in StarBands, f \in FEATURES :
              heatmap.cells[f][b.label].total = RowsInBand(b)
    /\ star_chart.drawn =>
          \A b \in StarBands3, f \in FEATURES :
              star_chart.cells[f][b.label].total = RowsInBand(b)

\* -------------------------------------------------------- the commit history

InitCommits ==
    /\ DashboardIdle /\ HeatIdle /\ DistIdle /\ LoadIdle /\ TableIdle
    /\ commits \in {NoCommits(TRUE), NoCommits(FALSE)}
    /\ window \in Windows
    /\ commit_chart = NoCommitChart

\* The commits table gains a commit.
AddCommit(t) ==
    /\ ~commit_chart.drawn
    /\ RowCount(commits.rows, CommitDates) < MaxCommits
    /\ commits' = [commits EXCEPT !.rows[t] = @ + 1]
    /\ UNCHANGED <<window, commit_chart, coreVars, heatVars, distVars, loadVars, tableVars>>

\* plot_commit_history(commits, start_date=..., end_date=...)
PlotCommitHistory ==
    /\ ~commit_chart.drawn
    /\ commit_chart' = plot_commit_history(commits, window.start_date, window.end_date)
    /\ UNCHANGED <<commits, window, coreVars, heatVars, distVars, loadVars, tableVars>>

NextCommits ==
    \/ \E t \in CommitDates : AddCommit(t)
    \/ PlotCommitHistory

SpecCommits == InitCommits /\ [][NextCommits]_vars

\* The calendar month of a year.
MonthOf(y, m) == y * 12 + (m - 1)

\* The configured window and its months.
WindowStart == IF window.start_date # NoDate THEN window.start_date ELSE DEFAULT_START
WindowEnd == IF window.end_date # NoDate THEN window.end_date ELSE DEFAULT_END
WindowMonths == MonthOf(WindowStart.y, WindowStart.m)..MonthOf(WindowEnd.y, WindowEnd.m)

\* The dates of the commits that lie inside the window, the number of
\* those commits in month p, and the months that have one.
InsideDates ==
    {t \in CommitDates :
        /\ t.k = "ts" /\ commits.rows[t] > 0
        /\ Stamp(WindowStart) <= Stamp(t) /\ Stamp(t) <= Stamp(WindowEnd)}
InWindowCommits(p) == RowCount(commits.rows, {t \in InsideDates : MonthOf(t.y, t.m) = p})
CommitMonths == {MonthOf(t.y, t.m) : t \in InsideDates}

\* The calendar months from the earliest through the latest month of S.
Span(S) == {p \in WindowMonths : (\E a \in S : a <= p) /\ (\E b \in S : p <= b)}

\* A monthly series was plotted.
SeriesPlotted == commit_chart.drawn /\ commit_chart.title = "Commit activity by month"

\* C13: the monthly series holds every calendar month between the earliest
\* and the latest month that has an in-window commit, each with its exact
\* number of in-window commits, 0 for a month without commits.
MonthlySeriesZeroFilled ==
    SeriesPlotted =>
        \A p \in Span(CommitMonths) :
            /\ p \in DOMAIN commit_chart.series
            /\ commit_chart.series[p] = InWindowCommits(p)

\* The scenario of C13: 3 commits in March 2021 and 5 in June 2021, default
\* window: the first bucket is March 2021 with 3, April and May hold 0.
MonthlySeriesWitness ==
    /\ SeriesPlotted
    /\ window = [start_date |-> NoDate, end_date |-> NoDate]
    /\ CommitMonths = {MonthOf(2021, 3), MonthOf(2021, 6)}
    /\ InWindowCommits(MonthOf(2021, 3)) = 3 /\ InWindowCommits(MonthOf(2021, 6)) = 5
    /\ \A p \in DOMAIN commit_chart.series : MonthOf(2021, 3) <= p
    /\ commit_chart.series[MonthOf(2021, 3)] = 3
    /\ commit_chart.series[MonthOf(2021, 4)] = 0
    /\ commit_chart.series[MonthOf(2021, 5)] = 0
    /\ commit_chart.series[MonthOf(2021, 6)] = 5

\* C14: with at least one commit inside the configured window, the monthly
\* series has an entry for every calendar month of the window, from the
\* month of its start date through the month of its end date.
SeriesCoversWindow ==
    (commit_chart.drawn /\ commits.has_date /\ CommitMonths # {}) =>
        /\ SeriesPlotted
        /\ DOMAIN commit_chart.series = WindowMonths

\* C14 as the code has it: with at least one commit inside the configured
\* window, the months of the series are exactly the months of the window
\* from the earliest through the latest month that has an in-window commit;
\* no month between those two is skipped.
SeriesCoversCommitSpan ==
    (commit_chart.drawn /\ commits.has_date /\ CommitMonths # {}) =>
        /\ SeriesPlotted
        /\ DOMAIN commit_chart.series = Span(CommitMonths)

\* A window from mid-March to the end of June 2021 with commits in March
\* and in June only: the series runs from March to June, and the months
\* from April to May are there with 0.
SeriesCoversCommitSpanWitness ==
    /\ SeriesPlotted
    /\ window.start_date # NoDate
    /\ CommitMonths = {MonthOf(2021, 3), MonthOf(2021, 6)}
    /\ DOMAIN commit_chart.series = MonthOf(2021, 3)..MonthOf(2021, 6)
    /\ commit_chart.series[MonthOf(2021, 4)] = 0

\* The calendar day of a timestamp, and the dates of the commits made on
\* the days from the start date through the end date.
DayOf(t) == (t.y * 12 + (t.m - 1)) * 31 + (t.d - 1)
OnWindowDays ==
    {t \in CommitDates :
        /\ t.k = "ts" /\ commits.rows[t] > 0
        /\ DayOf(WindowStart) <= DayOf(t) /\ DayOf(t) <= DayOf(WindowEnd)}

\* C26: plot_commit_history counts exactly the commits dated on or after
\* the start date and on or before the end date, at whatever time of the
\* end date's day; commits with unparseable dates are dropped.
WindowEndsInclusive ==
    (commit_chart.drawn /\ commits.has_date /\ OnWindowDays # {})
    => /\ SeriesPlotted
       /\ Total(commit_chart.series) = RowCount(commits.rows, OnWindowDays)

\* ------------------------------------------------------ the distribution charts

InitDist ==
    /\ DashboardIdle /\ HeatIdle /\ CommitsIdle /\ LoadIdle /\ TableIdle
    /\ dist_rows = [k \in DistRowKinds |-> 0]
    /\ other_thres \in OtherThresholds
    /\ dist_chart = NoDistChart

\* The number of additions, of one row or of BatchRows rows of a kind, that
\* build a row-set.
RECURSIVE Additions(_, _)
Additions(rows, S) ==
    IF S = {} THEN 0
    ELSE LET k == CHOOSE x \in S : TRUE
         IN (rows[k] \div BatchRows) + (rows[k] % BatchRows) + Additions(rows, S \ {k})

\* The row-set handed to the distribution charts gains n rows of a kind.
AddRows(k, n) ==
    /\ ~dist_chart.drawn
    /\ Additions(dist_rows, DOMAIN dist_rows) < MaxDistAdds
    /\ dist_rows' = [dist_rows EXCEPT ![k] = @ + n]
    /\ UNCHANGED <<other_thres, dist_chart, coreVars, heatVars, commitVars, loadVars, tableVars>>

\* plot_language_distribution(filtered_df(), other_thres=...): it also
\* writes the renamed language column into the frame it was given.
PlotLanguageDistribution ==
    /\ ~dist_chart.drawn
    /\ dist_chart' = plot_language_distribution(dist_rows, other_thres)
    /\ dist_rows' = ReplaceJupyter(dist_rows)
    /\ UNCHANGED <<other_thres, coreVars, heatVars, commitVars, loadVars, tableVars>>

\* plot_license_distribution(filtered_df(), other_thres=...)
PlotLicenseDistribution ==
    /\ ~dist_chart.drawn
    /\ dist_chart' = plot_license_distribution(dist_rows, other_thres)
    /\ UNCHANGED <<dist_rows, other_thres, coreVars, heatVars, commitVars, loadVars, tableVars>>

\* plot_type_distribution(filtered_df(), ...)
PlotTypeDistribution ==
    /\ ~dist_chart.drawn
    /\ dist_chart' = plot_type_distribution(dist_rows)
    /\ UNCHANGED <<dist_rows, other_thres, coreVars, heatVars, commitVars, loadVars, tableVars>>

\* plot_license_distribution_by_type(filtered_df(), other_thres=...)
PlotLicenseDistributionByType(edge) ==
    /\ ~dist_chart.drawn
    /\ dist_chart' = plot_license_distribution_by_type(dist_rows, other_thres, edge)
    /\ UNCHANGED <<dist_rows, other_thres, coreVars, heatVars, commitVars, loadVars, tableVars>>

\* plot_language_distribution_by_type(filtered_df(), other_thres=...)
PlotLanguageDistributionByType(edge) ==
    /\ ~dist_chart.drawn
    /\ dist_chart' = plot_language_distribution_by_type(dist_rows, other_thres, edge)
    /\ UNCHANGED <<dist_rows, other_thres, coreVars, heatVars, commitVars, loadVars, tableVars>>

\* plot_feature_counts_per_type(filtered_df(), FEATURES, ...)
PlotFeatureCountsPerType(edge) ==
    /\ ~dist_chart.drawn
    /\ \E last \in LastOfOrder(FeatureCountsByType(dist_rows, FEATURES)) :
          dist_chart' = plot_feature_counts_per_type(dist_rows, FEATURES, last, edge)
    /\ UNCHANGED <<dist_rows, other_thres, coreVars, heatVars, commitVars, loadVars, tableVars>>

NextDist ==
    \/ \E k \in DistRowKinds, n \in {1, BatchRows} : AddRows(k, n)
    \/ PlotLanguageDistribution
    \/ PlotLicenseDistribution
    \/ PlotTypeDistribution
    \/ \E edge \in EdgeOutcomes : PlotLicenseDistributionByType(edge)
    \/ \E edge \in EdgeOutcomes : PlotLanguageDistributionByType(edge)
    \/ \E edge \in EdgeOutcomes : PlotFeatureCountsPerType(edge)

SpecDist == InitDist /\ [][NextDist]_vars

\* The functions that fold the two spellings of the catch-all into one
\* bucket, the column each reads as the call left it, and the threshold
\* each applies.
OtherMergers ==
    {"plot_license_distribution", "plot_license_distribution_by_type",
     "plot_language_distribution_by_type"}
ColumnOf(fn, k) ==
    IF fn = "plot_language_distribution_by_type" THEN FillNa(k.language)
    ELSE FillNa(k.license)
AppliedThreshold(fn) ==
    IF fn = "plot_license_distribution" THEN LicenseShare ELSE other_thres

\* The buckets of the chart drawn, each with the number of rows it stands for.
Buckets ==
    IF dist_chart.fn \in {"plot_license_distribution", "plot_language_distribution"}
    THEN dist_chart.values
    ELSE [l \in DOMAIN dist_chart.grouped |-> RowTotal(dist_chart.grouped[l])]

\* The rows of dist_rows whose value of the column is in S.
DistRowsWith(fn, S) ==
    RowCount(dist_rows, {k \in DOMAIN dist_rows : ColumnOf(fn, k) \in S})

\* The values of the column other than the two spellings whose share of
\* the row-set is below the threshold.
BelowThreshold(fn, thres) ==
    {v \in {ColumnOf(fn, k) : k \in {x \in DOMAIN dist_rows : dist_rows[x] > 0}}
            \ {"other", "Other"} :
        DistRowsWith(fn, {v}) * 1000 < thres * Total(dist_rows)}

\* C15: when the row-set holds both a value 'other' and a value 'Other',
\* the chart of plot_license_distribution, of the license distribution by
\* type and of the language distribution by type has one bucket 'Other'
\* and none 'other', and its count is the rows of both spellings plus the
\* rows of every category merged for being below the threshold.
OtherSpellingsMerged ==
    (/\ dist_chart.drawn /\ ~dist_chart.exc
     /\ dist_chart.fn \in OtherMergers
     /\ DistRowsWith(dist_chart.fn, {"other"}) > 0
     /\ DistRowsWith(dist_chart.fn, {"Other"}) > 0)
    => /\ "other" \notin DOMAIN Buckets
       /\ "Other" \in DOMAIN Buckets
       /\ Buckets["Other"] =
             DistRowsWith(dist_chart.fn, {"other", "Other"})
             + DistRowsWith(dist_chart.fn, BelowThreshold(dist_chart.fn,
                                                     AppliedThreshold(dist_chart.fn)))

\* The four functions that take other_thres, and the category each gives
\* a row of the row-set it was called with (NA: the row has none).
ThresholdFunctions ==
    OtherMergers \cup {"plot_language_distribution"}
CategoryOf(fn, k) ==
    CASE fn = "plot_language_distribution" ->
             (IF k.language = "Jupyter Notebook" THEN "Jupyter" ELSE k.language)
      [] fn = "plot_language_distribution_by_type" -> CleanLanguage(k.language)
      [] OTHER -> FillNa(k.license)
CategoryRows(fn, v) ==
    RowCount(dist_rows, {k \in DOMAIN dist_rows : CategoryOf(fn, k) = v})
Categories(fn) ==
    {CategoryOf(fn, k) : k \in {x \in DOMAIN dist_rows : dist_rows[x] > 0}} \ {NA}

\* C16: in the chart of each of the four distribution functions a category
\* other than the catch-all is a bucket of its own exactly when its share
\* of the row-set is at least the other_thres the function was called with.
OtherThresHonoured ==
    (/\ dist_chart.drawn /\ ~dist_chart.exc
     /\ dist_chart.fn \in ThresholdFunctions)
    => \A v \in Categories(dist_chart.fn) \ {"other", "Other"} :
           v \in DOMAIN Buckets
           <=> CategoryRows(dist_chart.fn, v) * 1000 >= other_thres * Total(dist_rows)

\* The three charts grouped by project type, and the project types of the
\* rows of the row-set.
ByTypeCharts ==
    {"plot_license_distribution_by_type", "plot_language_distribution_by_type",
     "plot_feature_counts_per_type"}
RowTypes ==
    {k.type_prediction_gpt_5_mini :
        k \in {x \in DOMAIN dist_rows :
                  dist_rows[x] > 0 /\ x.type_prediction_gpt_5_mini.k = "str"}}

\* C17: in each of the three charts grouped by project type the category
\* 'Project Type' comes last, and its segment of a project type is the
\* number of rows of the row-set that have that type.
ProjectTypeLast ==
    (/\ dist_chart.drawn /\ ~dist_chart.exc
     /\ dist_chart.fn \in ByTypeCharts)
    => /\ dist_chart.last = "Project Type"
       /\ \A t \in RowTypes :
             /\ t \in DOMAIN dist_chart.project_type
             /\ dist_chart.project_type[t] =
                   RowCount(dist_rows,
                            {k \in DOMAIN dist_rows : k.type_prediction_gpt_5_mini = t})

\* str.strip().str.lower() of a project type, as the claim words it.
Normalised(cell) == str_lower(str_strip(cell.s))
ErrorSentinel == <<"e", "r", "r", "o", "r">>

\* The rows of the row-set plot_type_distribution is to keep.
RemainingRows ==
    RowCount(dist_rows,
             {k \in DOMAIN dist_rows :
                 ~(/\ k.type_prediction_gpt_5_mini.k = "str"
                   /\ Normalised(k.type_prediction_gpt_5_mini) = ErrorSentinel)})

\* C18: plot_type_distribution leaves out every row whose project type,
\* trimmed and lower-cased, is 'error': no category of the chart is such a
\* type, every other type of the row-set is a category with its number of
\* rows, and the total of the title is the number of remaining rows.
ErrorTypeExcluded ==
    (dist_chart.drawn /\ dist_chart.fn = "plot_type_distribution")
    => /\ ~dist_chart.exc
       /\ \A c \in DOMAIN dist_chart.values : Normalised(c) # ErrorSentinel
       /\ \A t \in RowTypes :
             Normalised(t) # ErrorSentinel
             => /\ t \in DOMAIN dist_chart.values
                /\ dist_chart.values[t] =
                      RowCount(dist_rows,
                               {k \in DOMAIN dist_rows : k.type_prediction_gpt_5_mini = t})
       /\ dist_chart.titled => dist_chart.total = RemainingRows

\* A chart drawn from rows of type 'error' and ' Error ' beside rows of
\* other types: both spellings are left out of the total.
ErrorTypeExcludedWitness ==
    /\ dist_chart.drawn /\ dist_chart.fn = "plot_type_distribution"
    /\ dist_chart.titled
    /\ \E k \in DOMAIN dist_rows :
          dist_rows[k] > 0 /\ k.type_prediction_gpt_5_mini = Str(<<"e", "r", "r", "o", "r">>)
    /\ \E k \in DOMAIN dist_rows :
          /\ dist_rows[k] > 0
          /\ k.type_prediction_gpt_5_mini = Str(<<" ", "E", "r", "r", "o", "r", " ">>)
    /\ dist_chart.total < Total(dist_rows)
    /\ dist_chart.total > 0

\* The number of rows of a kind in a row-set, and whether two row-sets hold
\* the same rows.
RowsOfKind(rows, k) == IF k \in DOMAIN rows THEN rows[k] ELSE 0
SameRows(a, b) ==
    \A k \in DOMAIN a \cup DOMAIN b : RowsOfKind(a, k) = RowsOfKind(b, k)

\* C23: no chart render changes the filtered row-set it is handed: after
\* the render the cached row-set holds the rows it held before.
RendersLeaveRowSet ==
    [][(~dist_chart.drawn /\ dist_chart'.drawn) => SameRows(dist_rows, dist_rows')]_vars

\* The rows a chart of the function is to count: every row, or for the
\* charts by type the rows that have a project type.
CountedRows(fn) ==
    IF fn = "plot_license_distribution" THEN Total(dist_rows)
    ELSE RowCount(dist_rows,
                  {k \in DOMAIN dist_rows : k.type_prediction_gpt_5_mini.k = "str"})

\* C28: grouping into 'Other' conserves rows: in plot_license_distribution
\* and the license and language distributions by type the counts of the
\* categories, the bar 'Project Type' left out, sum to the number of rows
\* (of rows with a project type, for the charts by type).
GroupingConservesRows ==
    (/\ dist_chart.drawn /\ ~dist_chart.exc
     /\ dist_chart.fn \in OtherMergers)
    => Total(Buckets) = CountedRows(dist_chart.fn)

\* ------------------------------------------------------------- the load

\* What the data directory holds when the module is imported.
InitLoad ==
    /\ DashboardIdle /\ HeatIdle /\ CommitsIdle /\ DistIdle /\ TableIdle
    /\ sources \in [combined : {"absent", "readable", "corrupt"},
                    inst : [Institutions -> SourceKinds]]
    /\ loaded = NotLoaded
    /\ log = {}
    /\ startup = Importing
    /\ pool = NoPool

\* Fast path: os.path.isfile(COMBINED_PARQUET); a read that raises is
\* logged and leaves an empty table.
LoadCombined ==
    /\ ~loaded.done
    /\ sources.combined # "absent"
    /\ IF sources.combined = "readable"
       THEN /\ loaded' = [done |-> TRUE, df |-> [columns |-> TRUE, rows |-> CombinedRows]]
            /\ log' = log
       ELSE /\ loaded' = [done |-> TRUE, df |-> EmptyFrame]
            /\ log' = log \cup {LogEntry("exception", "COMBINED_PARQUET")}
    /\ UNCHANGED <<sources, startup, pool, coreVars, heatVars, commitVars, distVars, tableVars>>

\* Slow path: the institutions that have a directory are submitted to the
\* executor, their results gathered in order and concatenated.
LoadPerInstitution ==
    /\ ~loaded.done
    /\ sources.combined = "absent"
    /\ LET gathered == Gather(Submitted(sources.inst), sources.inst)
       IN /\ loaded' = [done |-> TRUE, df |-> Concat(gathered.df_list)]
          /\ log' = log \cup gathered.log
    /\ UNCHANGED <<sources, startup, pool, coreVars, heatVars, commitVars, distVars, tableVars>>

\* The module-level code after the load runs on the base table.
Startup ==
    /\ loaded.done
    /\ startup.state = "importing"
    /\ startup' = StartupSteps(loaded.df)
    /\ UNCHANGED <<sources, loaded, log, pool, coreVars, heatVars, commitVars, distVars, tableVars>>

NextLoad ==
    \/ LoadCombined
    \/ LoadPerInstitution
    \/ Startup

SpecLoad == InitLoad /\ [][NextLoad]_vars

\* The institutions whose parquet file a read opens, and the repositories
\* their files hold.
Readable ==
    {a \in Institutions : sources.inst[a].file \in {"partial", "full", "mirror"}}
ReadableIds == UNION {RepoIds(IndexOf(a), sources.inst[a].file) : a \in Readable}

\* C20: after the slow-path load every institution whose source is missing
\* or whose read raises is named in the log and has no row in the base
\* table; the base table holds exactly the rows of the institutions that
\* loaded, and is the empty table when none did.
FailedInstitutionsSkippedAndLogged ==
    (loaded.done /\ sources.combined = "absent")
    => /\ {r.id : r \in loaded.df.rows} = ReadableIds
       /\ \A r \in loaded.df.rows :
             \E a \in Readable :
                 /\ r.id \in RepoIds(IndexOf(a), sources.inst[a].file)
                 /\ r.university = UniversityOf(a, sources.inst[a])
       /\ Readable = {} => loaded.df = EmptyFrame
       /\ \A a \in Institutions \ Readable : \E entry \in log : entry.what = a

\* The load failed totally: the combined parquet is there and cannot be
\* read, or it is absent and no institution's file can be read.
TotalLoadFailure ==
    \/ sources.combined = "corrupt"
    \/ sources.combined = "absent" /\ Readable = {}

\* C21: after a total load failure the base table is the empty table, and
\* the startup steps that follow complete on it: the dashboard reaches its
\* running state.
TotalLoadFailureStillRuns ==
    (loaded.done /\ TotalLoadFailure)
    => /\ loaded.df.rows = {}
       /\ startup.state # "crashed"

\* C22: after a load that unions the sources of several institutions no
\* two rows of the base table have the same id, also when a repository is
\* listed in more than one source.
UnionedIdsUnique ==
    (loaded.done /\ sources.combined = "absent")
    => \A r1 \in loaded.df.rows, r2 \in loaded.df.rows :
           r1.id = r2.id => r1 = r2

\* ------------------------------------------------- the repositories table

\* The session starts on a base table that the default filters keep whole,
\* with an empty search box and no row selected.
InitTable ==
    /\ DashboardIdle /\ HeatIdle /\ CommitsIdle /\ DistIdle /\ LoadIdle
    /\ \E data \in {t \in GridTables : Len(t) = MaxTableRows} :
          grid = [data |-> data, table_search |-> <<>>,
                  shown |-> display_df(data, <<>>), selected_rows |-> <<>>]
    /\ panel = NoPanel

\* A filter input changes: filtered_df() gives another row-set, display_df
\* renders it anew with no row selected and show_clicked follows.
FiltersChange ==
    /\ \E data \in GridTables :
          /\ data # grid.data
          /\ grid' = [grid EXCEPT !.data = data,
                                   !.shown = display_df(data, grid.table_search),
                                   !.selected_rows = <<>>]
    /\ panel' = show_clicked(grid'.data, <<>>)
    /\ UNCHANGED <<coreVars, heatVars, commitVars, distVars, loadVars>>

\* The search box changes: display_df renders anew with no row selected and
\* show_clicked follows.
TableSearch ==
    /\ \E table_search \in TableSearches :
          /\ table_search # grid.table_search
          /\ grid' = [grid EXCEPT !.table_search = table_search,
                                   !.shown = display_df(grid.data, table_search),
                                   !.selected_rows = <<>>]
    /\ panel' = show_clicked(grid.data, <<>>)
    /\ UNCHANGED <<coreVars, heatVars, commitVars, distVars, loadVars>>

\* A row of the DataGrid is selected: show_clicked renders the panel.
CellSelection ==
    /\ ~grid.shown.exc
    /\ \E row \in 1..Len(grid.shown.rows) :
          /\ grid' = [grid EXCEPT !.selected_rows = <<row>>]
          /\ panel' = show_clicked(grid.data, <<row>>)
    /\ UNCHANGED <<coreVars, heatVars, commitVars, distVars, loadVars>>

NextTable == FiltersChange \/ TableSearch \/ CellSelection

SpecTable == InitTable /\ [][NextTable]_vars

\* The rows of the table where the trimmed term, taken as the characters it
\* is made of and without regard to case, occurs in the text of a searchable
\* column.
LiteralMatches ==
    LET term == str_lower(str_strip(grid.table_search))
    IN {r.id : r \in
           {r \in {grid.data[i] : i \in 1..Len(grid.data)} :
               \E c \in 1..Len(searchable_columns) :
                   /\ NotNa(r[searchable_columns[c]])
                   /\ str_contains_literal(r, searchable_columns[c], term)}}

\* C24: the table search raises for no term and keeps exactly the rows where
\* the trimmed term occurs as a literal, case-insensitive substring of a
\* searchable column; an empty or blank term keeps every row.
SearchKeepsLiteralMatches ==
    /\ ~grid.shown.exc
    /\ grid.shown.rows =
          IF str_strip(grid.table_search) = <<>> THEN grid.data
          ELSE SelectRows(grid.data, LiteralMatches)

\* C29: with a row selected in the table, the detail panel shows the
\* repository of that row of the table as display_df shows it, whatever the
\* filters and the search term are.
PanelShowsSelectedRow ==
    grid.selected_rows # <<>>
    => (panel.k = "shown"
        => panel.id = grid.shown.rows[grid.selected_rows[1]].id)

\* C25: the detail panel renders for every row, also for one whose
\* open_issues_count or contributor_count is missing or not a number.
PanelRendersMissingCounts ==
    grid.selected_rows # <<>> => panel.k = "shown"

\* ------------------------------------------------------ the parallel load

\* What an institution's directory can hold in the runs of the executor.
PoolSourceKinds ==
    {k \in SourceKinds :
        k.config = "absent" \/ (k.file = "full" /\ k.config = "named")}

\* The combined parquet is absent: the module takes the slow path.
InitPool ==
    /\ DashboardIdle /\ HeatIdle /\ CommitsIdle /\ DistIdle /\ TableIdle
    /\ sources \in [combined : {"absent"}, inst : [Institutions -> PoolSourceKinds]]
    /\ loaded = NotLoaded
    /\ log = {}
    /\ startup = Importing
    /\ pool = NoPool

\* with ThreadPoolExecutor(...) as executor: submitted = []
ExecutorOpen ==
    /\ pool = NoPool
    /\ pool' = NewPool
    /\ UNCHANGED <<sources, loaded, log, startup, coreVars, heatVars, commitVars, distVars, tableVars>>

\* One pass of 'for acronym in ACRONYMS': an institution without a
\* directory is skipped, another is submitted; after the last pass the main
\* thread goes on to the results.
ExecutorSubmit ==
    /\ pool # NoPool
    /\ pool.phase = "submitting"
    /\ LET acronym == ACRONYMS[pool.at]
           p == IF sources.inst[acronym].dir
                THEN [pool EXCEPT !.submitted = Append(@, acronym),
                                  !.futures[acronym] = Future("pending", NoResult)]
                ELSE pool
       IN pool' = [p EXCEPT !.at = @ + 1,
                            !.phase = IF pool.at = MaxAcronyms
                                      THEN "gathering" ELSE "submitting"]
    /\ UNCHANGED <<sources, loaded, log, startup, coreVars, heatVars, commitVars, distVars, tableVars>>

\* A worker thread takes the next future of the work queue; no more than
\* max_workers threads run.
WorkerStart ==
    /\ pool # NoPool
    /\ \E a \in Institutions : pool.futures[a].state = "pending"
    /\ Cardinality({a \in Institutions : pool.futures[a].state = "running"}) < max_workers
    /\ pool' = [pool EXCEPT !.futures[FirstPending(pool)] = Future("running", NoResult)]
    /\ UNCHANGED <<sources, loaded, log, startup, coreVars, heatVars, commitVars, distVars, tableVars>>

\* A worker returns from _load_one_acronym: it read the parquet file and the
\* config file of its institution and sets its own future.
WorkerReturn ==
    /\ pool # NoPool
    /\ \E a \in Institutions :
          /\ pool.futures[a].state = "running"
          /\ pool' = [pool EXCEPT
                          !.futures[a] = Future("finished", load_one_acronym(a, sources.inst[a])),
                          !.returned = Append(@, a)]
    /\ UNCHANGED <<sources, loaded, log, startup, coreVars, heatVars, commitVars, distVars, tableVars>>

\* One pass of 'for future, acronym in submitted' that does not wait:
\* a future that has not finished is logged as failed.
FutureResultNoWait ==
    /\ pool # NoPool
    /\ pool.phase = "gathering"
    /\ pool.next <= Len(pool.submitted)
    /\ LET acronym == pool.submitted[pool.next]
           future == pool.futures[acronym]
           got == GatherOne(pool, log, acronym,
                            IF future.state = "finished" THEN future.result
                            ELSE [k |-> "raise", rows |-> {}])
       IN pool' = got.p /\ log' = got.log
    /\ UNCHANGED <<sources, loaded, startup, coreVars, heatVars, commitVars, distVars, tableVars>>

\* One pass of 'for future, acronym in submitted': future.result() waits
\* until the future has finished.
FutureResult ==
    /\ pool # NoPool
    /\ pool.phase = "gathering"
    /\ pool.next <= Len(pool.submitted)
    /\ LET acronym == pool.submitted[pool.next]
           future == pool.futures[acronym]
       IN /\ future.state = "finished"
          /\ LET got == GatherOne(pool, log, acronym, future.result)
             IN pool' = got.p /\ log' = got.log
    /\ UNCHANGED <<sources, loaded, startup, coreVars, heatVars, commitVars, distVars, tableVars>>

\* The with block ends and df = pd.concat(df_list, ignore_index=True) if
\* df_list else pd.DataFrame().
ExecutorClose ==
    /\ pool # NoPool
    /\ pool.phase = "gathering"
    /\ pool.next > Len(pool.submitted)
    /\ \A a \in Institutions : pool.futures[a].state \in {"none", "finished"}
    /\ pool' = [pool EXCEPT !.phase = "closed"]
    /\ loaded' = [done |-> TRUE, df |-> Concat(pool.df_list)]
    /\ UNCHANGED <<sources, log, startup, coreVars, heatVars, commitVars, distVars, tableVars>>

NextPool ==
    \/ ExecutorOpen
    \/ ExecutorSubmit
    \/ WorkerStart
    \/ WorkerReturn
    \/ FutureResult
    \/ ExecutorClose

SpecPool == InitPool /\ [][NextPool]_vars

\* C27: whatever the order in which the workers start and return, the load
\* ends with the same table: the fragments of the institutions whose file
\* a read opens, in the order of ACRONYMS, each as its worker alone gives
\* it, and a failure of one worker leaves the fragments of the others as
\* they are; the log names the failed institutions.
LoadOrderIndependent ==
    (pool # NoPool /\ pool.phase = "closed")
    => LET gathered == Gather(Submitted(sources.inst), sources.inst)
       IN /\ pool.df_list = gathered.df_list
          /\ loaded.df = Concat(gathered.df_list)
          /\ log = gathered.log
          /\ \A a \in Readable :
                \A n \in RepoIds(IndexOf(a), sources.inst[a].file) :
                    FileRow(n, UniversityOf(a, sources.inst[a])) \in loaded.df.rows

\* A load is over in which a worker submitted later returned before one
\* submitted earlier, one worker raised and two gave a fragment.
LoadOrderIndependentWitness ==
    /\ pool # NoPool
    /\ pool.phase = "closed"
    /\ \E i, j \in 1..Len(pool.returned) :
          /\ i < j
          /\ IndexOf(pool.returned[i]) > IndexOf(pool.returned[j])
    /\ \E a \in Institutions : pool.futures[a].result.k = "raise"
    /\ Len(pool.df_list) >= 2

====
